---- MODULE Spec2Model ----
(***************************************************************************)
(* Model Lifecycle & Serving Engine of the ml-service:                     *)
(*   - ModelRegistry (models/registry.py): LRU cache of loaded versions,   *)
(*     tenant-default and version-path maps, predict, refresh_defaults;    *)
(*   - deploy_model_version (models/router.py): the deployment transaction *)
(*     against PostgreSQL and the in-memory patch that follows it;         *)
(*   - the /predict handler (prediction/router.py).                        *)
(* The service runs on one asyncio event loop: a coroutine runs atomically *)
(* from one await to the next, so every action below is the code between   *)
(* two suspension points.  PostgreSQL runs transactions at READ COMMITTED. *)
(***************************************************************************)
EXTENDS Integers, Sequences, FiniteSets, TLC

None == "None"

\* ------------------------------------------------------------------------
\* Bounds of the model
\* ------------------------------------------------------------------------
\* rows the ml_model_deployments table may grow to (the seed row included)
MaxDeployments == 3
\* ModelRegistry(max_loaded_models=...), scaled down from the default of 10
MaxLoaded == 2
\* rows the ml_model_versions table may grow to (five exist at the start)
MaxVersions == 7
\* rows the feedback table may grow to, per tenant
MaxFeedback == 10

\* ------------------------------------------------------------------------
\* Universe
\* ------------------------------------------------------------------------
Tenants == {"T1", "T2"}
\* version ids (UUIDs) that are rows of ml_model_versions
VersionIds == {"va", "vb", "vc", "vd"}
\* a version row that was soft-deleted (is_deleted = true)
DeletedIds == {"vz"}
\* the rows of ml_model_versions at the start
SeedIds == VersionIds \cup DeletedIds
\* a request string that is not a UUID
BadUuid == "not-a-uuid"
DeployProcs == {"d1", "d2"}
RetrainProcs == {"r1", "r2"}

\* what a metadata.json "holds" when an artifact file of the directory cannot be
\* read back (xgboost load_model, pickle.load or json.load raises)
Corrupt == "corrupt"

\* settings.MODEL_DIR, as path components
MODEL_DIR == <<"/", "app", "models">>

VARIABLES
    ml_model_versions,     \* PG table: version id -> row
    ml_model_deployments,  \* PG table: sequence of rows, the index is the row id
    model_files,           \* filesystem: version directory -> label in its metadata.json
    current_version,       \* ModelRegistry._default_manager.current_version (None: not loaded)
    loaded,                \* ModelRegistry._loaded, least recently used first
    tenant_defaults,       \* ModelRegistry._tenant_defaults
    version_paths,         \* ModelRegistry._version_paths
    deploy,                \* one deploy_model_version request per process slot
    refresh,               \* the refresh loop task of ModelRegistry
    last_predict,          \* request and response of the latest /predict call
    feedback,              \* PG table feedback: per tenant, rows and rows with features
    locks,                 \* RetrainingPipeline._locks: lock key -> locked
    retrain,               \* one POST /retrain request per process slot
    label_encoder,         \* classes_ of the default manager's label encoder
    feedback_labels,       \* PG table feedback: per tenant, the new_label values
    artifact_store,        \* LocalArtifactStore.versions_dir: version directory -> its files
    last_load,             \* argument and outcome of the latest LocalArtifactStore.load call
    asset_model_versions,  \* PG table: asset id -> its active binding row (None: no active row)
    binding_cache,         \* ModelBindingCache._cache
    binding_refresh,       \* the refresh loop task of ModelBindingCache
    persisted,             \* history: <<tenant, model, n>> of the runs that saved artifacts v<n>
    disk,                  \* legacy layout: "current" and versions/<label> -> file -> content
    handle,                \* a ModelManager: model, label_encoder, scaler, current_version
    last_activate          \* argument and outcome of the latest activate_version call

vars == <<ml_model_versions, ml_model_deployments, model_files, current_version,
          loaded, tenant_defaults, version_paths, deploy, refresh, last_predict,
          feedback, locks, retrain, label_encoder, feedback_labels,
          artifact_store, last_load, asset_model_versions, binding_cache, binding_refresh,
          persisted, disk, handle, last_activate>>

label_vars == <<label_encoder, feedback_labels>>

store_vars == <<artifact_store, last_load>>

binding_vars == <<asset_model_versions, binding_cache, binding_refresh>>

legacy_vars == <<disk, handle, last_activate>>

retrain_vars == <<feedback, locks, retrain, label_vars, legacy_vars, store_vars, binding_vars,
                  persisted>>

\* ------------------------------------------------------------------------
\* Helpers
\* ------------------------------------------------------------------------
Range(s) == {s[i] : i \in DOMAIN s}

\* dict.get(k): the value, or None when the key is absent
Get(d, k) == IF k \in DOMAIN d THEN d[k] ELSE None

\* d[k] = v on a dict
Put(d, k, v) == [x \in DOMAIN d \cup {k} |-> IF x = k THEN v ELSE d[x]]

\* Path(artifact_path), made absolute under settings.MODEL_DIR when relative
version_dir(artifact_path) ==
    IF artifact_path[1] = "/" THEN artifact_path ELSE MODEL_DIR \o artifact_path

\* ------------------------------------------------------------------------
\* Initial state: the database as seeded plus versions written by earlier
\* retraining runs; the registry as constructed (nothing loaded, empty maps).
\* ------------------------------------------------------------------------
\* settings.CURRENT_MODEL_DIR
CURRENT_MODEL_DIR == MODEL_DIR \o <<"current">>

SeedVersions ==
    [v \in SeedIds |->
        CASE v = "va" -> [tenant_id |-> "T1", model_id |-> "M1",
                          full_version_label |-> "fault_classifier:1.0.0",
                          stage |-> "production", is_deleted |-> FALSE,
                          model_artifact_path |-> <<"models", "current">>]
          [] v = "vb" -> [tenant_id |-> "T1", model_id |-> "M1",
                          full_version_label |-> "fault_classifier:1.0.2",
                          stage |-> "staging", is_deleted |-> FALSE,
                          model_artifact_path |-> <<"models", "versions", "v2">>]
          [] v = "vc" -> [tenant_id |-> "T2", model_id |-> "M2",
                          full_version_label |-> "fault_classifier:1.0.1",
                          stage |-> "staging", is_deleted |-> FALSE,
                          model_artifact_path |-> <<"models", "versions", "v1">>]
          [] v = "vd" -> [tenant_id |-> "T1", model_id |-> "M1",
                          full_version_label |-> "fault_classifier:1.0.3",
                          stage |-> "staging", is_deleted |-> FALSE,
                          model_artifact_path |-> <<"models", "versions", "v3">>]
          [] OTHER    -> [tenant_id |-> "T1", model_id |-> "M1",
                          full_version_label |-> "fault_classifier:1.0.4",
                          stage |-> "staging", is_deleted |-> TRUE,
                          model_artifact_path |-> <<"models", "versions", "v4">>]]

\* the seed deployment: version va is production for (T1, M1)
SeedDeployments ==
    << [tenant_id |-> "T1", model_id |-> "M1", model_version_id |-> "va",
        is_production |-> TRUE, deployment_end |-> None] >>

\* Directories holding a loadable artifact set, with the version label of their
\* metadata.json.  The artifact directory of vd holds no model file.
SeedFiles ==
    LET dirs == {CURRENT_MODEL_DIR} \cup
                {version_dir(SeedVersions[v].model_artifact_path) : v \in {"va", "vb", "vc"}}
    IN [d \in dirs |->
          IF d = CURRENT_MODEL_DIR THEN "v1"
          ELSE IF d = version_dir(SeedVersions["va"].model_artifact_path) THEN "v1.0"
          ELSE IF d = version_dir(SeedVersions["vb"].model_artifact_path) THEN "v2"
          ELSE "v1-t2"]

IdleDeploy ==
    [pc |-> "idle", version_id |-> None, is_production |-> FALSE,
     snapshot |-> {}, closing |-> {}, status |-> None]

\* prior_defaults: the map the run's assignment to _tenant_defaults replaced;
\* cancelled: where the task was suspended when stop() cancelled it;
\* after_failure: the iteration before the current one logged an exception
IdleRefresh ==
    [pc |-> "sleep", new_defaults |-> <<>>, vresult |-> <<>>, prior_defaults |-> <<>>,
     cancelled |-> None, after_failure |-> FALSE]

NoPredict ==
    [tenant_id |-> None, model_version_id |-> None, status |-> None,
     via |-> None, resolved_version_id |-> None, result_version_id |-> None,
     result_version_label |-> None, model_version |-> None, evicted |-> None]

\* T1 has just enough feedback to retrain, T2 one row too few and none with features
SeedFeedback ==
    [t \in Tenants |-> IF t = "T1" THEN [rows |-> 10, usable |-> 10]
                                   ELSE [rows |-> 9, usable |-> 0]]

\* label_set: classes_ of the label encoder the run trains with and saves
IdleRetrain ==
    [pc |-> "idle", tenant_id |-> None, model_id |-> None, feedback_count |-> 0,
     version_num |-> 0, label_set |-> <<>>, result |-> None]

\* fault class names, in the order Python's sorted() gives strings
LabelOrder == <<"bearing", "imbalance", "looseness", "normal">>
Labels == Range(LabelOrder)
Pos(label) == CHOOSE i \in DOMAIN LabelOrder : LabelOrder[i] = label

\* sorted(list(S))
sorted_list(S) ==
    CHOOSE f \in [1..Cardinality(S) -> S] :
        \A i, j \in 1..Cardinality(S) : i < j => Pos(f[i]) < Pos(f[j])

\* the default model knows two classes; T1's feedback names one it does not know
SeedEncoder == sorted_list({"bearing", "normal"})
SeedLabels ==
    [t \in Tenants |-> IF t = "T1" THEN {"normal", "looseness"} ELSE {"normal"}]

\* ------------------------------------------------------------------------
\* ModelManager.activate_version (legacy filesystem activation)
\* ------------------------------------------------------------------------
\* the artifact files of a version directory, in the order they are copied and read
ArtifactFiles ==
    <<"xgboost_anomaly_detector.json", "label_encoder.pkl", "feature_scaler.pkl",
      "metadata.json">>
ModelFile == ArtifactFiles[1]
EncoderFile == ArtifactFiles[2]
ScalerFile == ArtifactFiles[3]
MetadataFile == ArtifactFiles[4]

CurrentDir == "current"
\* version labels asked for: v2 is a complete set, the label encoder of v3 cannot
\* be unpickled, v4 holds only the model file, v9 is not stored
ActivateVersions == {"v2", "v3", "v4", "v9"}

\* a complete artifact set written for one version: every file holds that version
complete_set(label) == [f \in Range(ArtifactFiles) |-> label]

SeedDisk ==
    [d \in {CurrentDir, "v2", "v3", "v4"} |->
        CASE d = CurrentDir -> complete_set("v1")
          [] d = "v2" -> complete_set("v2")
          [] d = "v3" -> [complete_set("v3") EXCEPT ![EncoderFile] = Corrupt]
          [] OTHER    -> [f \in {ModelFile} |-> "v4"]]

NoHandle == [model |-> None, label_encoder |-> None, scaler |-> None,
             current_version |-> None]

NoActivate == [version |-> None, ok |-> FALSE, status |-> None]

\* ModelManager.load_current_model on the files of the current directory: the
\* fields are assigned one by one, and whatever raises leaves the earlier
\* assignments in place (self.model is a fresh XGBClassifier before load_model)
load_current_model(files, h) ==
    IF ModelFile \notin DOMAIN files THEN [ok |-> FALSE, handle |-> h]
    ELSE IF files[ModelFile] = Corrupt
    THEN [ok |-> FALSE, handle |-> [h EXCEPT !.model = "unfitted"]]
    ELSE LET h1 == [h EXCEPT !.model = files[ModelFile]]
         IN  IF EncoderFile \notin DOMAIN files \/ files[EncoderFile] = Corrupt
             THEN [ok |-> FALSE, handle |-> h1]
             ELSE LET h2 == [h1 EXCEPT !.label_encoder = files[EncoderFile]]
                  IN  IF ScalerFile \notin DOMAIN files \/ files[ScalerFile] = Corrupt
                      THEN [ok |-> FALSE, handle |-> h2]
                      ELSE LET h3 == [h2 EXCEPT !.scaler = files[ScalerFile]]
                           IN  IF MetadataFile \notin DOMAIN files
                               THEN [ok |-> TRUE,
                                     handle |-> [h3 EXCEPT !.current_version = "v1"]]
                               ELSE IF files[MetadataFile] = Corrupt
                               THEN [ok |-> FALSE, handle |-> h3]
                               ELSE [ok |-> TRUE,
                                     handle |-> [h3 EXCEPT !.current_version =
                                                              files[MetadataFile]]]

\* the loop `for fname in [...]: if src.exists(): shutil.copy(src, dst / fname)`,
\* interrupted by an I/O error at the copy of file number fail_at (0: no error)
copy_files(src, dst, fail_at) ==
    LET copied == {ArtifactFiles[i] : i \in {j \in 1..Len(ArtifactFiles) :
                                               /\ ArtifactFiles[j] \in DOMAIN src
                                               /\ (fail_at = 0 \/ j < fail_at)}}
    IN  [f \in DOMAIN dst \cup copied |-> IF f \in copied THEN src[f] ELSE dst[f]]

copy_raises(src, fail_at) ==
    fail_at # 0 /\ ArtifactFiles[fail_at] \in DOMAIN src

\* ModelManager.activate_version; every exception is caught and answered False
activate_version(version, fail_at) ==
    IF version \notin DOMAIN disk
    THEN [ok |-> FALSE, disk |-> disk, handle |-> handle]
    ELSE IF handle.current_version = None      \* versions / None raises TypeError
    THEN [ok |-> FALSE, disk |-> disk, handle |-> handle]
    ELSE LET backup_dir == handle.current_version
             old == IF backup_dir \in DOMAIN disk THEN disk[backup_dir] ELSE <<>>
             d1 == Put(disk, backup_dir, copy_files(disk[CurrentDir], old, 0))
             d2 == Put(d1, CurrentDir, copy_files(d1[version], d1[CurrentDir], fail_at))
             l == load_current_model(d2[CurrentDir], handle)
         IN  IF copy_raises(d1[version], fail_at)
             THEN [ok |-> FALSE, disk |-> d2, handle |-> handle]
             ELSE [ok |-> l.ok, disk |-> d2, handle |-> l.handle]

\* startup: load() of the default manager
LegacyLoad ==
    LET l == load_current_model(disk[CurrentDir], handle)
    IN  /\ handle.current_version = None
        /\ l.ok
        /\ handle' = l.handle
        /\ UNCHANGED <<disk, last_activate, store_vars, binding_vars, label_vars, persisted,
                       feedback, locks, retrain, ml_model_versions, ml_model_deployments,
                       model_files, current_version, loaded, tenant_defaults, version_paths,
                       deploy, refresh, last_predict>>

\* POST /models/{version}/activate: success, or ModelNotFoundError
Activate(version, fail_at) ==
    LET a == activate_version(version, fail_at)
    IN  /\ disk' = a.disk
        /\ handle' = a.handle
        /\ last_activate' = [version |-> version, ok |-> a.ok,
                             status |-> IF a.ok THEN "ok" ELSE "not_found"]
        /\ UNCHANGED <<store_vars, binding_vars, label_vars, persisted,
                       feedback, locks, retrain, ml_model_versions, ml_model_deployments,
                       model_files, current_version, loaded, tenant_defaults, version_paths,
                       deploy, refresh, last_predict>>

InitLegacy ==
    /\ disk = SeedDisk
    /\ handle = NoHandle
    /\ last_activate = NoActivate

\* ------------------------------------------------------------------------
\* LocalArtifactStore (artifacts/local_store.py)
\* ------------------------------------------------------------------------
\* version names handed to the store
StoreVersions == {"v1", "v2", "v3"}
\* artifact file names of a bundle
ArtifactNames == {"xgboost_anomaly_detector.json", "metadata.json"}
\* a version argument that names a file inside a version directory
NestedVersion == "v1/metadata.json"
NestedDir == "v1"
NestedFile == "metadata.json"
StoreArguments == StoreVersions \cup {NestedVersion}

NoLoad == [version |-> None, status |-> None, artifacts |-> {}]

\* (self.versions_dir / version).exists(), for a directory or a file
path_exists(version) ==
    IF version = NestedVersion
    THEN NestedDir \in DOMAIN artifact_store /\ NestedFile \in artifact_store[NestedDir]
    ELSE version \in DOMAIN artifact_store

\* LocalArtifactStore.exists
store_exists(version) == path_exists(version)

\* a load that answers an absent version with an empty map
store_load_lenient(version) ==
    IF version = NestedVersion /\ path_exists(version)
    THEN [status |-> "not_a_directory", artifacts |-> {}]
    ELSE IF ~path_exists(version)
    THEN [status |-> "ok", artifacts |-> {}]
    ELSE [status |-> "ok", artifacts |-> artifact_store[version]]

\* LocalArtifactStore.load: FileNotFoundError when the path does not exist;
\* iterdir() of a path that is a file raises NotADirectoryError
store_load(version) ==
    IF ~path_exists(version)
    THEN [status |-> "not_found", artifacts |-> {}]
    ELSE IF version = NestedVersion
    THEN [status |-> "not_a_directory", artifacts |-> {}]
    ELSE [status |-> "ok", artifacts |-> artifact_store[version]]

\* LocalArtifactStore.save: the directory is created, the named files written
StoreSave(version, artifacts) ==
    /\ artifact_store' =
          Put(artifact_store, version,
              (IF version \in DOMAIN artifact_store THEN artifact_store[version] ELSE {})
                \cup artifacts)
    /\ UNCHANGED <<last_load, binding_vars, label_vars, legacy_vars,
                   persisted, feedback, locks, retrain,
                   ml_model_versions, ml_model_deployments, model_files, current_version,
                   loaded, tenant_defaults, version_paths, deploy, refresh, last_predict>>

\* LocalArtifactStore.delete of a stored version
StoreDelete(version) ==
    /\ version \in DOMAIN artifact_store
    /\ artifact_store' = [v \in DOMAIN artifact_store \ {version} |-> artifact_store[v]]
    /\ UNCHANGED <<last_load, binding_vars, label_vars, legacy_vars,
                   persisted, feedback, locks, retrain,
                   ml_model_versions, ml_model_deployments, model_files, current_version,
                   loaded, tenant_defaults, version_paths, deploy, refresh, last_predict>>

\* a caller of LocalArtifactStore.load, with the outcome it observes
StoreLoad(version) ==
    LET r == store_load(version)
    IN  /\ last_load' = [version |-> version, status |-> r.status, artifacts |-> r.artifacts]
        /\ UNCHANGED <<artifact_store, binding_vars, label_vars, legacy_vars,
                       persisted, feedback, locks, retrain,
                       ml_model_versions, ml_model_deployments, model_files, current_version,
                       loaded, tenant_defaults, version_paths, deploy, refresh, last_predict>>

\* LocalArtifactStore.__init__: versions_dir exists and is empty
InitStore ==
    /\ artifact_store = <<>>
    /\ last_load = NoLoad

\* ------------------------------------------------------------------------
\* ModelBindingCache (mqtt-ingestion, prediction/model_binding.py)
\* ------------------------------------------------------------------------
Assets == {"A1", "A2"}
\* the versions assets are bound to
BoundVersions == {"vb", "vd"}

\* one row of REFRESH_SQL: asset_model_versions joined with ml_model_versions
binding_row(asset_id, version_id) ==
    [asset_id |-> asset_id,
     model_id |-> SeedVersions[version_id].model_id,
     model_version_id |-> version_id,
     full_version_label |-> SeedVersions[version_id].full_version_label,
     model_artifact_path |-> SeedVersions[version_id].model_artifact_path]

\* ModelBinding(...) built from a row
ModelBinding(row) ==
    [model_id |-> row.model_id, model_version_id |-> row.model_version_id,
     version_label |-> row.full_version_label, artifact_path |-> row.model_artifact_path]

\* the caches the loop over rows can build: per asset the binding of the row
\* that came last, in whatever order the query (no ORDER BY) returned the rows
new_caches(rows) ==
    LET assets == {r.asset_id : r \in rows}
    IN  {c \in [assets -> {ModelBinding(r) : r \in rows}] :
            \A a \in assets : \E r \in rows : r.asset_id = a /\ c[a] = ModelBinding(r)}

\* a refresh that adds the rows to the live map instead of replacing it
next_caches_merged(rows) ==
    {[a \in DOMAIN binding_cache \cup DOMAIN c |->
         IF a \in DOMAIN c THEN c[a] ELSE binding_cache[a]] : c \in new_caches(rows)}

\* self._cache = new_cache
next_caches(rows) == new_caches(rows)

\* pc: "none" no loop task yet, "sleep" between iterations, "fetch" awaiting
\* pool.fetch, "failed" the iteration logged an exception, "stopped" cancelled.
\* result: the rows of the latest refresh that succeeded (none did yet: {}).
\* stop_returned: a call of stop() has returned;
\* after_failure: the iteration before the current one logged an exception.
IdleBinding ==
    [pc |-> "none", rows |-> {}, result |-> {}, stop_returned |-> FALSE,
     after_failure |-> FALSE]

\* the active rows of asset_model_versions, as REFRESH_SQL returns them
active_rows == {binding_row(r[1], r[2]) : r \in asset_model_versions}

\* another service activates a binding row
BindAsset(asset_id, version_id) ==
    /\ <<asset_id, version_id>> \notin asset_model_versions
    /\ asset_model_versions' = asset_model_versions \cup {<<asset_id, version_id>>}
    /\ UNCHANGED <<binding_cache, binding_refresh, store_vars, label_vars, legacy_vars,
                   persisted, feedback, locks,
                   retrain, ml_model_versions, ml_model_deployments, model_files,
                   current_version, loaded, tenant_defaults, version_paths, deploy, refresh,
                   last_predict>>

\* another service sets is_active = false on a binding row
UnbindAsset(asset_id, version_id) ==
    /\ <<asset_id, version_id>> \in asset_model_versions
    /\ asset_model_versions' = asset_model_versions \ {<<asset_id, version_id>>}
    /\ UNCHANGED <<binding_cache, binding_refresh, store_vars, label_vars, legacy_vars,
                   persisted, feedback, locks,
                   retrain, ml_model_versions, ml_model_deployments, model_files,
                   current_version, loaded, tenant_defaults, version_paths, deploy, refresh,
                   last_predict>>

\* start_refresh_loop: the task is created
BindingStart ==
    /\ binding_refresh.pc = "none"
    /\ ~binding_refresh.stop_returned
    /\ binding_refresh' = [binding_refresh EXCEPT !.pc = "sleep"]
    /\ UNCHANGED <<asset_model_versions, binding_cache, store_vars, label_vars, legacy_vars,
                   persisted, feedback,
                   locks, retrain, ml_model_versions, ml_model_deployments, model_files,
                   current_version, loaded, tenant_defaults, version_paths, deploy, refresh,
                   last_predict>>

\* refresh: pool.fetch(REFRESH_SQL) is sent and answered by the database
BindingFetch ==
    /\ binding_refresh.pc = "sleep"
    /\ binding_refresh' = [binding_refresh EXCEPT !.pc = "fetch", !.rows = active_rows]
    /\ UNCHANGED <<asset_model_versions, binding_cache, store_vars, label_vars, legacy_vars,
                   persisted, feedback,
                   locks, retrain, ml_model_versions, ml_model_deployments, model_files,
                   current_version, loaded, tenant_defaults, version_paths, deploy, refresh,
                   last_predict>>

\* refresh: the rows arrive, new_cache is built and assigned
BindingRefreshed ==
    /\ binding_refresh.pc = "fetch"
    /\ binding_cache' \in next_caches(binding_refresh.rows)
    /\ binding_refresh' = [binding_refresh EXCEPT !.pc = "sleep", !.rows = {},
                                                  !.result = binding_refresh.rows,
                                                  !.after_failure = FALSE]
    /\ UNCHANGED <<asset_model_versions, store_vars, label_vars, legacy_vars, persisted, feedback,
                   locks, retrain, ml_model_versions, ml_model_deployments, model_files,
                   current_version, loaded, tenant_defaults, version_paths, deploy, refresh,
                   last_predict>>

\* refresh: pool.fetch raises; except Exception logs it
BindingFail ==
    /\ binding_refresh.pc = "fetch"
    /\ binding_refresh' = [binding_refresh EXCEPT !.pc = "failed", !.rows = {},
                                                  !.after_failure = TRUE]
    /\ UNCHANGED <<asset_model_versions, binding_cache, store_vars, label_vars, legacy_vars,
                   persisted, feedback,
                   locks, retrain, ml_model_versions, ml_model_deployments, model_files,
                   current_version, loaded, tenant_defaults, version_paths, deploy, refresh,
                   last_predict>>

\* _loop: refresh has returned after a failure, asyncio.sleep begins
BindingSleep ==
    /\ binding_refresh.pc = "failed"
    /\ binding_refresh' = [binding_refresh EXCEPT !.pc = "sleep"]
    /\ UNCHANGED <<asset_model_versions, binding_cache, store_vars, label_vars, legacy_vars,
                   persisted, feedback,
                   locks, retrain, ml_model_versions, ml_model_deployments, model_files,
                   current_version, loaded, tenant_defaults, version_paths, deploy, refresh,
                   last_predict>>

\* ModelBindingCache.stop: without a task it returns at once; otherwise the
\* task is cancelled at the await it is suspended in, and awaited
BindingStop ==
    /\ ~binding_refresh.stop_returned
    /\ binding_refresh' =
          IF binding_refresh.pc = "none"
          THEN [binding_refresh EXCEPT !.stop_returned = TRUE]
          ELSE [binding_refresh EXCEPT !.pc = "stopped", !.rows = {},
                                       !.stop_returned = TRUE]
    /\ UNCHANGED <<asset_model_versions, binding_cache, store_vars, label_vars, legacy_vars,
                   persisted, feedback,
                   locks, retrain, ml_model_versions, ml_model_deployments, model_files,
                   current_version, loaded, tenant_defaults, version_paths, deploy, refresh,
                   last_predict>>

\* ModelBindingCache.__init__, over a table with no active row
InitBinding ==
    /\ asset_model_versions = {}
    /\ binding_cache = <<>>
    /\ binding_refresh = IdleBinding

Init ==
    /\ ml_model_versions = SeedVersions
    /\ ml_model_deployments = SeedDeployments
    /\ model_files = SeedFiles
    /\ current_version = None
    /\ loaded = <<>>
    /\ tenant_defaults = <<>>
    /\ version_paths = <<>>
    /\ deploy = [p \in DeployProcs |-> IdleDeploy]
    /\ refresh = IdleRefresh
    /\ last_predict = NoPredict
    /\ feedback = SeedFeedback
    /\ locks = <<>>
    /\ retrain = [p \in RetrainProcs |-> IdleRetrain]
    /\ label_encoder = SeedEncoder
    /\ feedback_labels = SeedLabels
    /\ InitStore
    /\ InitBinding
    /\ persisted = {}
    /\ InitLegacy

db_vars == <<ml_model_versions, ml_model_deployments>>
registry_maps == <<tenant_defaults, version_paths>>

\* ------------------------------------------------------------------------
\* ModelRegistry.load / ModelManager.load_current_model
\* ------------------------------------------------------------------------
\* The label a ModelManager reports after load_current_model on directory d.
loaded_label(d) == model_files[d]

Load ==
    /\ current_version = None
    /\ CURRENT_MODEL_DIR \in DOMAIN model_files
    /\ model_files[CURRENT_MODEL_DIR] # Corrupt
    /\ current_version' = loaded_label(CURRENT_MODEL_DIR)
    /\ UNCHANGED <<retrain_vars, db_vars, model_files, loaded, registry_maps, deploy, refresh,
                   last_predict>>

\* ------------------------------------------------------------------------
\* ModelRegistry.predict and the /predict handler
\* ------------------------------------------------------------------------
\* UUID(s) succeeds
Parseable(s) == s # None /\ s # BadUuid

\* a resolution that hands a tenant without a default some other tenant's
resolve_any_default(model_version_id, tenant_id) ==
    IF Parseable(model_version_id) THEN model_version_id
    ELSE IF Parseable(tenant_id)
         THEN IF tenant_id \in DOMAIN tenant_defaults THEN tenant_defaults[tenant_id]
              ELSE IF DOMAIN tenant_defaults # {}
                   THEN tenant_defaults[CHOOSE t \in DOMAIN tenant_defaults : TRUE]
                   ELSE None
    ELSE None

resolve_version_id(model_version_id, tenant_id) ==
    IF Parseable(model_version_id) THEN model_version_id
    ELSE IF Parseable(tenant_id) THEN Get(tenant_defaults, tenant_id)
    ELSE None

LoadedIds == {loaded[i].version_id : i \in DOMAIN loaded}

IndexOf(version_id) == CHOOSE i \in DOMAIN loaded : loaded[i].version_id = version_id

\* a cache hit that does not promote the entry
move_to_end_skipped(version_id) == loaded

\* OrderedDict.move_to_end(version_id)
move_to_end(version_id) ==
    LET i == IndexOf(version_id)
    IN  SubSeq(loaded, 1, i - 1) \o SubSeq(loaded, i + 1, Len(loaded)) \o <<loaded[i]>>

\* _load_version: [ok, cache, evicted]; a failed load returns None and leaves
\* the cache as it is.
LoadFailed == [ok |-> FALSE, cache |-> loaded, evicted |-> None]

\* a load that does not notice that load_current_model raised: the entry is
\* cached and served whatever the artifact files held
\* a load that never evicts
load_version_unbounded(version_id) ==
    IF version_id \notin DOMAIN version_paths THEN LoadFailed
    ELSE IF version_paths[version_id] = <<>> THEN LoadFailed
    ELSE LET dir == version_dir(version_paths[version_id])
             entry == [version_id |-> version_id, version_label |-> loaded_label(dir)]
         IN  IF dir \notin DOMAIN model_files THEN LoadFailed
             ELSE IF model_files[dir] = Corrupt THEN LoadFailed
             ELSE [ok |-> TRUE, cache |-> Append(loaded, entry), evicted |-> None]

load_version_unguarded(version_id) ==
    IF version_id \notin DOMAIN version_paths THEN LoadFailed
    ELSE IF version_paths[version_id] = <<>> THEN LoadFailed
    ELSE LET dir == version_dir(version_paths[version_id])
             entry == [version_id |-> version_id, version_label |-> loaded_label(dir)]
         IN  IF dir \notin DOMAIN model_files THEN LoadFailed
             ELSE IF Len(loaded) >= MaxLoaded
                  THEN IF loaded = <<>> THEN LoadFailed   \* popitem on an empty dict raises
                       ELSE [ok |-> TRUE, cache |-> Append(Tail(loaded), entry),
                             evicted |-> Head(loaded).version_id]
                  ELSE [ok |-> TRUE, cache |-> Append(loaded, entry), evicted |-> None]

\* a load that makes room in the cache before it reads the artifact files
load_version_evict_first(version_id) ==
    IF version_id \notin DOMAIN version_paths THEN LoadFailed
    ELSE IF version_paths[version_id] = <<>> THEN LoadFailed
    ELSE LET dir == version_dir(version_paths[version_id])
             entry == [version_id |-> version_id, version_label |-> loaded_label(dir)]
             room == IF Len(loaded) >= MaxLoaded /\ loaded # <<>> THEN Tail(loaded)
                     ELSE loaded
         IN  IF dir \notin DOMAIN model_files \/ model_files[dir] = Corrupt
             THEN [ok |-> FALSE, cache |-> room, evicted |-> None]
             ELSE [ok |-> TRUE, cache |-> Append(room, entry),
                   evicted |-> IF room = loaded THEN None ELSE Head(loaded).version_id]

load_version(version_id) ==
    IF version_id \notin DOMAIN version_paths THEN LoadFailed
    ELSE IF version_paths[version_id] = <<>> THEN LoadFailed
    ELSE LET dir == version_dir(version_paths[version_id])
             entry == [version_id |-> version_id, version_label |-> loaded_label(dir)]
         IN  IF dir \notin DOMAIN model_files THEN LoadFailed
             ELSE IF model_files[dir] = Corrupt THEN LoadFailed   \* except Exception
             ELSE IF Len(loaded) >= MaxLoaded
                  THEN IF loaded = <<>> THEN LoadFailed   \* popitem on an empty dict raises
                       ELSE [ok |-> TRUE, cache |-> Append(Tail(loaded), entry),
                             evicted |-> Head(loaded).version_id]
                  ELSE [ok |-> TRUE, cache |-> Append(loaded, entry), evicted |-> None]

\* ModelRegistry.predict: the result fields the registry adds, the new cache.
registry_predict(model_version_id, tenant_id) ==
    LET resolved == resolve_version_id(model_version_id, tenant_id)
        fallback(cache) ==
            IF current_version = None
            THEN [via |-> "error", version_id |-> None,
                  version_label |-> None, cache |-> cache, evicted |-> None]
            ELSE [via |-> "fallback", version_id |-> None,
                  version_label |-> current_version, cache |-> cache, evicted |-> None]
    IN  IF resolved # None /\ resolved \in LoadedIds
        THEN [via |-> "hit", version_id |-> resolved,
              version_label |-> loaded[IndexOf(resolved)].version_label,
              cache |-> move_to_end(resolved), evicted |-> None]
        ELSE IF resolved # None /\ resolved \in DOMAIN version_paths
        THEN LET l == load_version(resolved)
             IN  IF l.ok
                 THEN [via |-> "load", version_id |-> resolved,
                       version_label |-> l.cache[Len(l.cache)].version_label,
                       cache |-> l.cache, evicted |-> l.evicted]
                 ELSE fallback(l.cache)
        ELSE fallback(loaded)

\* ModelManager.get_current_version of the default manager
get_current_version == IF current_version = None THEN "unknown" ELSE current_version

\* POST /predict
Predict(tenant_id, model_version_id) ==
    LET r == registry_predict(model_version_id, tenant_id)
    IN  /\ loaded' = r.cache
        /\ last_predict' =
              [tenant_id |-> tenant_id, model_version_id |-> model_version_id,
               status |-> IF r.via = "error" THEN "error" ELSE "ok",
               via |-> r.via,
               resolved_version_id |-> resolve_version_id(model_version_id, tenant_id),
               result_version_id |-> r.version_id,
               result_version_label |-> r.version_label,
               model_version |-> IF r.via = "error" THEN None ELSE get_current_version,
               evicted |-> r.evicted]
        /\ UNCHANGED <<retrain_vars, db_vars, model_files, current_version, registry_maps, deploy,
                       refresh>>

\* ------------------------------------------------------------------------
\* POST /models/versions/{version_id}/deploy  (deploy_model_version)
\* One transaction per request; its steps are the handler's awaits.
\* ------------------------------------------------------------------------
DeploymentIds == DOMAIN ml_model_deployments

\* WHERE tenant_id = .. AND model_id = .. AND is_production AND deployment_end IS NULL
OpenProduction(tenant_id, model_id) ==
    {d \in DeploymentIds :
        /\ ml_model_deployments[d].tenant_id = tenant_id
        /\ ml_model_deployments[d].model_id = model_id
        /\ ml_model_deployments[d].is_production
        /\ ml_model_deployments[d].deployment_end = None}

\* rows updated by a transaction that has not committed yet are locked by it
LockedByOthers(p) ==
    UNION {deploy[q].closing : q \in {q \in DeployProcs : q # p /\ deploy[q].pc = "updated"}}

InFlight == {p \in DeployProcs : deploy[p].pc # "idle"}

\* a lookup that does not filter the soft-deleted rows
version_found_any_row(version_id) == version_id \in DOMAIN ml_model_versions

\* select(MLModelVersion).where(id == version_id, is_deleted == False) finds a row
version_found(version_id) ==
    IF version_id \in DOMAIN ml_model_versions
    THEN ~ml_model_versions[version_id].is_deleted
    ELSE FALSE

\* no row: HTTPException 404 before anything is written
DeployNotFound(p, version_id) ==
    /\ deploy[p].pc = "idle"
    /\ ~version_found(version_id)
    /\ deploy' = [deploy EXCEPT ![p] = [IdleDeploy EXCEPT !.status = "not_found",
                                                          !.version_id = version_id]]
    /\ UNCHANGED <<retrain_vars, db_vars, model_files, current_version, loaded, registry_maps,
                   refresh, last_predict>>

\* the version row is found
DeploySelect(p, version_id, is_production) ==
    /\ deploy[p].pc = "idle"
    /\ Len(ml_model_deployments) + Cardinality(InFlight) < MaxDeployments
    /\ version_found(version_id)
    /\ deploy' = [deploy EXCEPT ![p] =
                    [IdleDeploy EXCEPT !.pc = "selected", !.version_id = version_id,
                                       !.is_production = is_production]]
    /\ UNCHANGED <<retrain_vars, db_vars, model_files, current_version, loaded, registry_maps,
                   refresh, last_predict>>

\* UPDATE ml_model_deployments SET deployment_end = now, is_production = false
\* WHERE ...: the statement sees the rows committed when it starts; a row locked
\* by another transaction makes it wait.
DeployUpdate(p) ==
    LET v == ml_model_versions[deploy[p].version_id]
        rows == OpenProduction(v.tenant_id, v.model_id)
    IN  /\ deploy[p].pc = "selected"
        /\ deploy[p].is_production
        /\ IF rows \cap LockedByOthers(p) = {}
           THEN deploy' = [deploy EXCEPT ![p].pc = "updated", ![p].closing = rows]
           ELSE deploy' = [deploy EXCEPT ![p].pc = "waiting", ![p].snapshot = rows]
        /\ UNCHANGED <<retrain_vars, db_vars, model_files, current_version, loaded, registry_maps,
                       refresh, last_predict>>

\* The lock holder has committed: the waiting UPDATE re-evaluates its WHERE on
\* the rows of its snapshot only; rows inserted since are not seen.
DeployUpdateResume(p) ==
    LET v == ml_model_versions[deploy[p].version_id]
    IN  /\ deploy[p].pc = "waiting"
        /\ deploy[p].snapshot \cap LockedByOthers(p) = {}
        /\ deploy' = [deploy EXCEPT
                        ![p].pc = "updated", ![p].snapshot = {},
                        ![p].closing = deploy[p].snapshot \cap
                                       OpenProduction(v.tenant_id, v.model_id)]
        /\ UNCHANGED <<retrain_vars, db_vars, model_files, current_version, loaded, registry_maps,
                       refresh, last_predict>>

\* a commit that promotes the stage whatever is_production says
DeployCommit_promotes(p) ==
    LET d == deploy[p]
        v == ml_model_versions[d.version_id]
        closed == [i \in DeploymentIds |->
                     IF i \in d.closing
                     THEN [ml_model_deployments[i] EXCEPT !.deployment_end = "now",
                                                          !.is_production = FALSE]
                     ELSE ml_model_deployments[i]]
        row == [tenant_id |-> v.tenant_id, model_id |-> v.model_id,
                model_version_id |-> d.version_id,
                is_production |-> d.is_production, deployment_end |-> None]
    IN  /\ \/ d.pc = "updated"
           \/ d.pc = "selected" /\ ~d.is_production
        /\ ml_model_deployments' = Append(closed, row)
        /\ ml_model_versions' =
              [ml_model_versions EXCEPT ![d.version_id].stage = "production"]
        /\ deploy' = [deploy EXCEPT ![p].pc = "committed", ![p].closing = {}]
        /\ UNCHANGED <<retrain_vars, model_files, current_version, loaded, registry_maps, refresh,
                       last_predict>>

\* session.add(deployment); session.commit(): the pending UPDATEs, the stage
\* change and the INSERT become visible together.
DeployCommit(p) ==
    LET d == deploy[p]
        v == ml_model_versions[d.version_id]
        closed == [i \in DeploymentIds |->
                     IF i \in d.closing
                     THEN [ml_model_deployments[i] EXCEPT !.deployment_end = "now",
                                                          !.is_production = FALSE]
                     ELSE ml_model_deployments[i]]
        row == [tenant_id |-> v.tenant_id, model_id |-> v.model_id,
                model_version_id |-> d.version_id,
                is_production |-> d.is_production, deployment_end |-> None]
    IN  /\ \/ d.pc = "updated"
           \/ d.pc = "selected" /\ ~d.is_production
        /\ ml_model_deployments' = Append(closed, row)
        /\ ml_model_versions' =
              IF d.is_production
              THEN [ml_model_versions EXCEPT ![d.version_id].stage = "production"]
              ELSE ml_model_versions
        /\ deploy' = [deploy EXCEPT ![p].pc = "committed", ![p].closing = {}]
        /\ UNCHANGED <<retrain_vars, model_files, current_version, loaded, registry_maps, refresh,
                       last_predict>>

\* a deploy that leaves the tenant default to the next refresh
patch_defaults_skipped(version_id) == tenant_defaults

\* After the commit: patch the registry maps and answer.
patch_defaults(version_id) ==
    Put(tenant_defaults, ml_model_versions[version_id].tenant_id, version_id)

patch_paths(version_id) ==
    Put(version_paths, version_id, ml_model_versions[version_id].model_artifact_path)

DeployReturn(p) ==
    LET d == deploy[p]
    IN  /\ d.pc = "committed"
        /\ IF d.is_production
           THEN /\ tenant_defaults' = patch_defaults(d.version_id)
                /\ version_paths' = patch_paths(d.version_id)
           ELSE UNCHANGED registry_maps
        /\ deploy' = [deploy EXCEPT ![p] = [IdleDeploy EXCEPT !.status = "ok"]]
        /\ UNCHANGED <<retrain_vars, db_vars, model_files, current_version, loaded, refresh,
                       last_predict>>

\* The handler ran in another process of the service: the commit is in the
\* shared database, the patch went to that process's registry, not to this one.
DeployReturnRemote(p) ==
    /\ deploy[p].pc = "committed"
    /\ deploy' = [deploy EXCEPT ![p] = [IdleDeploy EXCEPT !.status = "ok"]]
    /\ UNCHANGED <<retrain_vars, db_vars, model_files, current_version, loaded, registry_maps,
                   refresh, last_predict>>

\* ------------------------------------------------------------------------
\* ModelRegistry.refresh_defaults, run by the loop of start_refresh_loop
\* ------------------------------------------------------------------------
\* select(MLModelDeployment).where(is_production == True)
ProductionRows == {d \in DeploymentIds : ml_model_deployments[d].is_production}

\* new_defaults[dep.tenant_id] = dep.model_version_id over the rows in the order
\* the database returns them (no ORDER BY): per tenant the last row wins.
NewDefaultsChoices ==
    LET ts == {ml_model_deployments[d].tenant_id : d \in ProductionRows}
        vs(t) == {ml_model_deployments[d].model_version_id :
                    d \in {x \in ProductionRows : ml_model_deployments[x].tenant_id = t}}
    IN  {f \in [ts -> VersionIds] : \A t \in ts : f[t] \in vs(t)}

\* select(MLModelVersion).where(id.in_(version_ids)): id -> model_artifact_path
VersionPathRows(version_ids) ==
    [v \in version_ids \cap DOMAIN ml_model_versions |->
        ml_model_versions[v].model_artifact_path]

\* self._version_paths[v.id] = v.model_artifact_path for every row
merge_paths(vresult) ==
    [v \in DOMAIN version_paths \cup DOMAIN vresult |->
        IF v \in DOMAIN vresult THEN vresult[v] ELSE version_paths[v]]

\* an iteration starts: the deployments query is sent and answered
RefreshQuery ==
    /\ refresh.pc = "sleep"
    /\ \E f \in NewDefaultsChoices :
          refresh' = [IdleRefresh EXCEPT !.pc = "deployments", !.new_defaults = f,
                                         !.after_failure = refresh.after_failure]
    /\ UNCHANGED <<retrain_vars, db_vars, model_files, current_version, loaded, registry_maps,
                   deploy, last_predict>>

\* a run that builds new_defaults and never assigns it
RefreshDefaults_unassigned ==
    LET version_ids == Range(refresh.new_defaults)
    IN  /\ refresh.pc = "deployments"
        /\ IF version_ids # {}
           THEN refresh' = [refresh EXCEPT !.pc = "versions",
                                           !.vresult = VersionPathRows(version_ids),
                                           !.prior_defaults = tenant_defaults]
           ELSE refresh' = IdleRefresh
        /\ UNCHANGED <<retrain_vars, db_vars, model_files, current_version, loaded,
                       tenant_defaults, version_paths, deploy, last_predict>>

\* the coroutine resumes with the deployments: self._tenant_defaults = new_defaults,
\* then the version query is sent (or, with no deployment, the run ends)
RefreshDefaults ==
    LET version_ids == Range(refresh.new_defaults)
    IN  /\ refresh.pc = "deployments"
        /\ tenant_defaults' = refresh.new_defaults
        /\ IF version_ids # {}
           THEN refresh' = [refresh EXCEPT !.pc = "versions",
                                           !.vresult = VersionPathRows(version_ids),
                                           !.prior_defaults = tenant_defaults]
           ELSE refresh' = IdleRefresh
        /\ UNCHANGED <<retrain_vars, db_vars, model_files, current_version, loaded, version_paths,
                       deploy, last_predict>>

\* the coroutine resumes with the version rows and writes their paths
RefreshPaths ==
    /\ refresh.pc = "versions"
    /\ version_paths' = merge_paths(refresh.vresult)
    /\ refresh' = IdleRefresh
    /\ UNCHANGED <<retrain_vars, db_vars, model_files, current_version, loaded, tenant_defaults,
                   deploy, last_predict>>

\* a query raises (metadata store unreachable): logged inside refresh_defaults,
\* the run ends and the loop goes on to its sleep
RefreshFail ==
    /\ refresh.pc \in {"deployments", "versions"}
    /\ refresh' = [IdleRefresh EXCEPT !.pc = "failed", !.after_failure = TRUE]
    /\ UNCHANGED <<retrain_vars, db_vars, model_files, current_version, loaded, registry_maps,
                   deploy, last_predict>>

\* a loop that ends with the iteration that failed
RefreshSleep_exits ==
    /\ refresh.pc = "failed"
    /\ refresh' = [IdleRefresh EXCEPT !.pc = "exited", !.after_failure = TRUE]
    /\ UNCHANGED <<retrain_vars, db_vars, model_files, current_version, loaded, registry_maps,
                   deploy, last_predict>>

\* asyncio.sleep(interval_sec) after a failed run, then the next iteration
RefreshSleep ==
    /\ refresh.pc = "failed"
    /\ refresh' = [IdleRefresh EXCEPT !.after_failure = TRUE]
    /\ UNCHANGED <<retrain_vars, db_vars, model_files, current_version, loaded, registry_maps,
                   deploy, last_predict>>

\* a cancellation that the except clause of refresh_defaults swallows: the run
\* is logged as failed and the loop goes on
Stop_swallowed ==
    /\ refresh.pc \in {"sleep", "deployments", "versions", "failed"}
    /\ refresh' = [refresh EXCEPT !.pc = "failed", !.cancelled = refresh.pc]
    /\ UNCHANGED <<retrain_vars, db_vars, model_files, current_version, loaded, registry_maps,
                   deploy, last_predict>>

\* ModelRegistry.stop: the task is cancelled where it is suspended (in a query of
\* refresh_defaults or in the sleep); CancelledError is no Exception, so nothing
\* in refresh_defaults handles it and the maps stay as the run left them
Stop ==
    /\ refresh.pc \in {"sleep", "deployments", "versions", "failed"}
    /\ refresh' = [refresh EXCEPT !.pc = "stopped", !.cancelled = refresh.pc]
    /\ UNCHANGED <<retrain_vars, db_vars, model_files, current_version, loaded, registry_maps,
                   deploy, last_predict>>

\* ModelRegistry.stop before start_refresh_loop: _refresh_task is None and the
\* call returns at once
StopUnstarted ==
    /\ refresh.pc = "sleep"
    /\ refresh' = [refresh EXCEPT !.pc = "stopped", !.cancelled = "no_task"]
    /\ UNCHANGED <<retrain_vars, db_vars, model_files, current_version, loaded, registry_maps,
                   deploy, last_predict>>

\* ------------------------------------------------------------------------
\* POST /retrain (trigger_retrain) and RetrainingPipeline.retrain_model
\* ------------------------------------------------------------------------
\* settings.MIN_FEEDBACK_FOR_RETRAIN
MIN_FEEDBACK_FOR_RETRAIN == 10

\* f"v{version_num}" and f"fault_classifier:1.0.{version_num}"
VersionLabel(n) == <<"v1", "v2", "v3", "v4", "v5", "v6", "v7", "v8", "v9">>[n]
FullLabel(n) ==
    <<"fault_classifier:1.0.1", "fault_classifier:1.0.2", "fault_classifier:1.0.3",
      "fault_classifier:1.0.4", "fault_classifier:1.0.5", "fault_classifier:1.0.6",
      "fault_classifier:1.0.7", "fault_classifier:1.0.8", "fault_classifier:1.0.9">>[n]

\* ml_models: the model named fault_classifier of a tenant (the seed has T1's)
FaultClassifier == [t \in {"T1"} |-> "M1"]

\* a threshold check that refuses only a tenant without any feedback
insufficient_only_empty(feedback_count) == feedback_count <= 0

\* feedback_count < settings.MIN_FEEDBACK_FOR_RETRAIN
insufficient(feedback_count) == feedback_count < MIN_FEEDBACK_FOR_RETRAIN

\* one lock per tenant, whatever the model
lock_key_tenant_only(tenant_id, model_id) == <<tenant_id>>

\* lock_key = (str(tenant_id), str(model_id))
lock_key(tenant_id, model_id) == <<tenant_id, model_id>>

\* lock.locked() on self._locks[lock_key]: the defaultdict makes a free lock
locked(key) == IF key \in DOMAIN locks THEN locks[key] ELSE FALSE

\* async with lock: entered without suspending when the lock is free
acquire(key) == Put(locks, key, TRUE)

\* a lock that stays held when the run ends
release_skipped(key) == locks

\* leaving async with lock: on return and on any exception
release(key) == Put(locks, key, FALSE)

Training == {p \in RetrainProcs : retrain[p].pc \in {"feedback", "versioned", "written",
                                                     "write_failed"}}

\* a count that also reserves the numbers of the tenant's runs in flight
VersionCount_reserving(tenant_id) ==
    Cardinality({v \in DOMAIN ml_model_versions :
                    ml_model_versions[v].tenant_id = tenant_id})
    + Cardinality({q \in RetrainProcs : /\ retrain[q].pc = "versioned"
                                          /\ retrain[q].tenant_id = tenant_id})

\* select count(ml_model_versions.id) where tenant_id = ..
VersionCount(tenant_id) ==
    Cardinality({v \in DOMAIN ml_model_versions :
                    ml_model_versions[v].tenant_id = tenant_id})

\* uuid4() for the new ml_model_versions row
NewVersionId == <<"n1", "n2", "n3", "n4">>[Cardinality(DOMAIN ml_model_versions \ SeedIds) + 1]

\* the request arrives: get_feedback_count is sent and answered
RetrainCall(p, tenant_id, model_id) ==
    /\ retrain[p].pc = "idle"
    /\ Cardinality(DOMAIN ml_model_versions) + Cardinality(Training) < MaxVersions
    /\ retrain' = [retrain EXCEPT ![p] =
                     [IdleRetrain EXCEPT !.pc = "called", !.tenant_id = tenant_id,
                                         !.model_id = model_id,
                                         !.feedback_count = feedback[tenant_id].rows]]
    /\ UNCHANGED <<label_vars, legacy_vars,
                   store_vars, binding_vars, persisted, db_vars,
                   model_files, current_version, loaded, registry_maps, deploy,
                   refresh, last_predict, feedback, locks>>

\* feedback_count < MIN_FEEDBACK_FOR_RETRAIN: answered without calling the pipeline
RetrainInsufficient(p) ==
    /\ retrain[p].pc = "called"
    /\ insufficient(retrain[p].feedback_count)
    /\ retrain' = [retrain EXCEPT ![p].pc = "idle", ![p].result = "insufficient",
                                  ![p].feedback_count = 0]
    /\ UNCHANGED <<label_vars, legacy_vars,
                   store_vars, binding_vars, persisted, db_vars,
                   model_files, current_version, loaded, registry_maps, deploy,
                   refresh, last_predict, feedback, locks>>

\* retrain_model without the lock.locked() test
retrain_model_enter_unchecked(p) ==
    [locks |-> acquire(lock_key(retrain[p].tenant_id, retrain[p].model_id)),
     pc |-> "feedback", result |-> None]

\* what retrain_model does with the lock of its key before its first await
retrain_model_enter(p) ==
    LET key == lock_key(retrain[p].tenant_id, retrain[p].model_id)
    IN  IF locked(key)
        THEN [locks |-> Put(locks, key, TRUE), pc |-> "idle", result |-> "already_running"]
        ELSE [locks |-> acquire(key), pc |-> "feedback", result |-> None]

\* retrain_model: lock.locked() answers already_running, otherwise the lock is
\* taken and _do_retrain sends get_feedback_for_retraining
RetrainEnter(p) ==
    LET e == retrain_model_enter(p)
    IN  /\ retrain[p].pc = "called"
        /\ ~insufficient(retrain[p].feedback_count)
        /\ locks' = e.locks
        /\ retrain' = [retrain EXCEPT ![p].pc = e.pc, ![p].result = e.result,
                                      ![p].feedback_count = 0]
        /\ UNCHANGED <<label_vars, legacy_vars,
                       store_vars, binding_vars, persisted, db_vars,
                       model_files, current_version, loaded, registry_maps,
                       deploy, refresh, last_predict, feedback>>

\* the run ends: the result is returned and async with releases the lock
retrain_end(p, result) ==
    /\ locks' = release(lock_key(retrain[p].tenant_id, retrain[p].model_id))
    /\ retrain' = [retrain EXCEPT ![p].pc = "idle", ![p].result = result,
                                  ![p].feedback_count = 0,
                                  ![p].version_num = IF result = "success"
                                                     THEN retrain[p].version_num ELSE 0,
                                  ![p].label_set = IF result = "success"
                                                   THEN retrain[p].label_set ELSE <<>>]

\* feedback_data["count"] == 0: "No feedback data available"
RetrainNoFeedback(p) ==
    /\ retrain[p].pc = "feedback"
    /\ feedback[retrain[p].tenant_id].usable = 0
    /\ retrain_end(p, "no_feedback")
    /\ UNCHANGED <<label_vars, legacy_vars,
                   store_vars, binding_vars, persisted, db_vars,
                   model_files, current_version, loaded, registry_maps, deploy,
                   refresh, last_predict, feedback>>

\* new classes are appended to the current encoder's classes_
new_label_encoder_appended(classes_, feedback_classes) ==
    LET new_classes == feedback_classes \ Range(classes_)
    IN  IF new_classes # {} THEN classes_ \o sorted_list(new_classes)
        ELSE classes_

\* classes_ of the label encoder of the run: a new LabelEncoder over the sorted
\* union when the feedback names new classes, else the manager's encoder itself
new_label_encoder(classes_, feedback_classes) ==
    LET original_classes == Range(classes_)
        new_classes == feedback_classes \ original_classes
    IN  IF new_classes # {} THEN sorted_list(original_classes \cup feedback_classes)
        ELSE classes_

\* label set, split, scaler, fit and evaluation run without suspending; then
\* _next_version counts the tenant's version rows
RetrainTrain(p) ==
    /\ retrain[p].pc = "feedback"
    /\ feedback[retrain[p].tenant_id].usable > 0
    /\ retrain' = [retrain EXCEPT ![p].pc = "versioned",
                                  ![p].version_num = VersionCount(retrain[p].tenant_id) + 1,
                                  ![p].label_set =
                                      new_label_encoder(label_encoder,
                                                        feedback_labels[retrain[p].tenant_id])]
    /\ UNCHANGED <<label_vars, legacy_vars,
                   store_vars, binding_vars, persisted, db_vars,
                   model_files, current_version, loaded, registry_maps, deploy,
                   refresh, last_predict, feedback, locks>>

\* save_new_version: MODEL_DIR/versions/<label> gets the new artifact set
save_new_version(version_num) ==
    Put(model_files, MODEL_DIR \o <<"versions", VersionLabel(version_num)>>,
        VersionLabel(version_num))

\* a run that writes its version as production
new_version_row_promoted(tenant_id, model_id, version_num) ==
    [tenant_id |-> tenant_id, model_id |-> model_id,
     full_version_label |-> FullLabel(version_num),
     stage |-> "production", is_deleted |-> FALSE,
     model_artifact_path |-> <<"models", "versions", VersionLabel(version_num)>>]

\* the MLModelVersion row of _write_version_to_pg
new_version_row(tenant_id, model_id, version_num) ==
    [tenant_id |-> tenant_id, model_id |-> model_id,
     full_version_label |-> FullLabel(version_num),
     stage |-> "staging", is_deleted |-> FALSE,
     model_artifact_path |-> <<"models", "versions", VersionLabel(version_num)>>]

\* a table without the unique constraint on (tenant_id, full_version_label)
LabelTaken_unenforced(tenant_id, full_label) == FALSE

\* uq_ml_model_versions_tenant_label
LabelTaken(tenant_id, full_label) ==
    \E v \in DOMAIN ml_model_versions :
        /\ ml_model_versions[v].tenant_id = tenant_id
        /\ ml_model_versions[v].full_version_label = full_label

\* save_new_version writes the files (a failure to write is logged and answered
\* False, which the pipeline does not read), then _write_version_to_pg resolves
\* the model, adds the row and commits
RetrainSave(p, saved) ==
    LET r == retrain[p]
        model_id == IF r.model_id # None THEN r.model_id
                    ELSE Get(FaultClassifier, r.tenant_id)
    IN  /\ r.pc = "versioned"
        /\ model_files' = IF saved THEN save_new_version(r.version_num) ELSE model_files
        /\ IF model_id = None
           THEN \* "No fault_classifier model found in PG": returns without a row
                /\ UNCHANGED ml_model_versions
                /\ retrain' = [retrain EXCEPT ![p].pc = "written"]
           ELSE IF LabelTaken(r.tenant_id, FullLabel(r.version_num))
           THEN /\ UNCHANGED ml_model_versions
                /\ retrain' = [retrain EXCEPT ![p].pc = "write_failed"]
           ELSE /\ ml_model_versions' =
                      Put(ml_model_versions, NewVersionId,
                          new_version_row(r.tenant_id, model_id, r.version_num))
                /\ retrain' = [retrain EXCEPT ![p].pc = "written"]
        /\ persisted' = IF saved
                        THEN persisted \cup {<<r.tenant_id, r.model_id, r.version_num>>}
                        ELSE persisted
        /\ UNCHANGED <<label_vars, legacy_vars, store_vars, binding_vars, ml_model_deployments,
                       current_version, loaded, registry_maps, deploy, refresh, last_predict,
                       feedback, locks>>

\* the commit has returned: success
RetrainReturn(p) ==
    /\ retrain[p].pc = "written"
    /\ retrain_end(p, "success")
    /\ UNCHANGED <<label_vars, legacy_vars,
                   store_vars, binding_vars, persisted, db_vars,
                   model_files, current_version, loaded, registry_maps, deploy,
                   refresh, last_predict, feedback>>

\* except Exception as e: return {"success": False, "message": ...}
failure_result == "failed"

\* trigger_retrain: the result dict becomes a RetrainResponse (200); an
\* exception out of retrain_model becomes HTTPException(500)
http_status(result) == IF result = "raised" THEN 500 ELSE 200

\* except Exception: a query, the training or the commit raised
RetrainFail(p) ==
    /\ retrain[p].pc \in {"feedback", "versioned", "write_failed"}
    /\ retrain_end(p, failure_result)
    /\ UNCHANGED <<label_vars, legacy_vars,
                   store_vars, binding_vars, persisted, db_vars,
                   model_files, current_version, loaded, registry_maps, deploy,
                   refresh, last_predict, feedback>>

\* the feedback-submission path stores one more row
SubmitFeedback(tenant_id, with_features) ==
    /\ feedback[tenant_id].rows < MaxFeedback
    /\ feedback' = [feedback EXCEPT
                       ![tenant_id].rows = @ + 1,
                       ![tenant_id].usable = IF with_features THEN @ + 1 ELSE @]
    /\ UNCHANGED <<label_vars, legacy_vars,
                   store_vars, binding_vars, persisted, db_vars,
                   model_files, current_version, loaded, registry_maps, deploy,
                   refresh, last_predict, locks, retrain>>

\* ------------------------------------------------------------------------
\* Requests the environment sends
\* ------------------------------------------------------------------------
\* (tenantId, modelVersionId) of the /predict requests
PredictRequests ==
    ({"T1"} \X (VersionIds \cup {None, BadUuid})) \cup ({"T2"} \X {None, "vc"})
        \cup {<<None, None>>}
\* version ids of the deploy requests; vx is no row of ml_model_versions
DeployVersions == SeedIds \cup {"vx"}

\* Serving: predict traffic, the refresh loop and one operator deploying.
Operator == {"d1"}
\* the versions the operator promotes: the staged ones
OperatorVersions == VersionIds \ {"va"}

\* startup has loaded the default model: requests are served, the loop runs
Started == current_version # None

Next ==
    \/ Load
    \/ Started /\ \E r \in PredictRequests : Predict(r[1], r[2])
    \/ Started /\ \E p \in Operator, v \in OperatorVersions : DeploySelect(p, v, TRUE)
    \/ \E p \in Operator : DeployUpdate(p)
    \/ \E p \in Operator : DeployCommit(p)
    \/ \E p \in Operator : DeployReturn(p)
    \/ Started /\ RefreshQuery
    \/ RefreshDefaults
    \/ RefreshPaths

Spec == Init /\ [][Next]_vars

\* Deployment: two deploy requests in flight at once, each in its own transaction.
NextDeploy ==
    \/ \E p \in DeployProcs, v \in DeployVersions : DeployNotFound(p, v)
    \/ \E p \in DeployProcs, v \in DeployVersions, prod \in BOOLEAN :
          DeploySelect(p, v, prod)
    \/ \E p \in DeployProcs : DeployUpdate(p)
    \/ \E p \in DeployProcs : DeployUpdateResume(p)
    \/ \E p \in DeployProcs : DeployCommit(p)
    \/ \E p \in DeployProcs : DeployReturn(p)

SpecDeploy == Init /\ [][NextDeploy]_vars

\* The refresh loop under failures and shutdown: queries may raise and stop()
\* may cancel the task; the registry patch of a deploy lands between two runs,
\* so that within a run only the run writes the maps.
NextRefresh ==
    \/ Load
    \/ Started /\ \E r \in PredictRequests : Predict(r[1], r[2])
    \/ Started /\ \E p \in Operator, v \in OperatorVersions : DeploySelect(p, v, TRUE)
    \/ \E p \in Operator : DeployUpdate(p)
    \/ \E p \in Operator : DeployCommit(p)
    \/ \E p \in Operator : refresh.pc = "sleep" /\ DeployReturn(p)
    \/ Started /\ RefreshQuery
    \/ RefreshDefaults
    \/ RefreshPaths
    \/ RefreshFail
    \/ RefreshSleep
    \/ Stop

SpecRefresh == Init /\ [][NextRefresh]_vars

\* A process that learns of deployments only through its refresh loop: the
\* operator's deploys are handled by another process, the metadata store stays
\* reachable, and the loop keeps running (every query is answered, every sleep
\* ends).
NextConverge ==
    \/ Load
    \/ Started /\ \E t \in Tenants : Predict(t, None)
    \/ \E p \in Operator, v \in OperatorVersions : DeploySelect(p, v, TRUE)
    \/ \E p \in Operator : DeployUpdate(p)
    \/ \E p \in Operator : DeployCommit(p)
    \/ \E p \in Operator : DeployReturnRemote(p)
    \/ Started /\ RefreshQuery
    \/ RefreshDefaults
    \/ RefreshPaths

SpecConverge ==
    /\ Init
    /\ [][NextConverge]_vars
    /\ WF_vars(Load)
    /\ WF_vars(Started /\ RefreshQuery)
    /\ WF_vars(RefreshDefaults)
    /\ WF_vars(RefreshPaths)

\* Serving with damaged storage: the artifact files of vb cannot be read back
\* and the row of vc carries an empty artifact path; vd has no model file.
InitDegraded ==
    /\ ml_model_versions = [SeedVersions EXCEPT !["vc"].model_artifact_path = <<>>]
    /\ ml_model_deployments = SeedDeployments
    /\ model_files =
          [SeedFiles EXCEPT ![version_dir(SeedVersions["vb"].model_artifact_path)] = Corrupt]
    /\ current_version = None
    /\ loaded = <<>>
    /\ tenant_defaults = <<>>
    /\ version_paths = <<>>
    /\ deploy = [p \in DeployProcs |-> IdleDeploy]
    /\ refresh = IdleRefresh
    /\ last_predict = NoPredict
    /\ feedback = SeedFeedback
    /\ locks = <<>>
    /\ retrain = [p \in RetrainProcs |-> IdleRetrain]
    /\ label_encoder = SeedEncoder
    /\ feedback_labels = SeedLabels
    /\ InitStore
    /\ InitBinding
    /\ persisted = {}
    /\ InitLegacy

SpecDegraded == InitDegraded /\ [][Next]_vars

\* Retraining: two retrain requests in flight at once.
RetrainRequests == {<<"T1", "M1">>, <<"T1", None>>, <<"T2", "M2">>}

NextRetrain ==
    \/ \E t \in Tenants, f \in BOOLEAN : SubmitFeedback(t, f)
    \/ \E p \in RetrainProcs, r \in RetrainRequests : RetrainCall(p, r[1], r[2])
    \/ \E p \in RetrainProcs : RetrainInsufficient(p)
    \/ \E p \in RetrainProcs : RetrainEnter(p)
    \/ \E p \in RetrainProcs : RetrainNoFeedback(p)
    \/ \E p \in RetrainProcs : RetrainTrain(p)
    \/ \E p \in RetrainProcs, saved \in BOOLEAN : RetrainSave(p, saved)
    \/ \E p \in RetrainProcs : RetrainReturn(p)
    \/ \E p \in RetrainProcs : RetrainFail(p)

SpecRetrain == Init /\ [][NextRetrain]_vars

\* Retraining beside a serving registry: one retrain request at a time while the
\* refresh loop runs and tenant T1 asks for predictions.
Trainer == {"r1"}

NextLifecycle ==
    \/ Load
    \/ Started /\ RefreshQuery
    \/ RefreshDefaults
    \/ RefreshPaths
    \/ Started /\ Predict("T1", None)
    \/ \E p \in Trainer, r \in RetrainRequests : RetrainCall(p, r[1], r[2])
    \/ \E p \in Trainer : RetrainInsufficient(p)
    \/ \E p \in Trainer : RetrainEnter(p)
    \/ \E p \in Trainer : RetrainTrain(p)
    \/ \E p \in Trainer, saved \in BOOLEAN : RetrainSave(p, saved)
    \/ \E p \in Trainer : RetrainReturn(p)
    \/ \E p \in Trainer : RetrainFail(p)

SpecLifecycle == Init /\ [][NextLifecycle]_vars

\* Label sets: one retrain request at a time for T1, over every sorted encoder
\* the default model may carry and every set of classes T1's feedback may name.
InitLabels ==
    /\ ml_model_versions = SeedVersions
    /\ ml_model_deployments = SeedDeployments
    /\ model_files = SeedFiles
    /\ current_version = None
    /\ loaded = <<>>
    /\ tenant_defaults = <<>>
    /\ version_paths = <<>>
    /\ deploy = [p \in DeployProcs |-> IdleDeploy]
    /\ refresh = IdleRefresh
    /\ last_predict = NoPredict
    /\ feedback = SeedFeedback
    /\ locks = <<>>
    /\ retrain = [p \in RetrainProcs |-> IdleRetrain]
    /\ InitStore
    /\ InitBinding
    /\ persisted = {}
    /\ InitLegacy
    /\ label_encoder \in {sorted_list(S) : S \in SUBSET Labels \ {{}}}
    /\ \E F \in SUBSET Labels \ {{}} :
          feedback_labels = [t \in Tenants |-> IF t = "T1" THEN F ELSE {}]

NextLabels ==
    \/ \E p \in Trainer, m \in {"M1", None} : RetrainCall(p, "T1", m)
    \/ \E p \in Trainer : RetrainEnter(p)
    \/ \E p \in Trainer : RetrainTrain(p)
    \/ \E p \in Trainer, saved \in BOOLEAN : RetrainSave(p, saved)
    \/ \E p \in Trainer : RetrainReturn(p)
    \/ \E p \in Trainer : RetrainFail(p)

SpecLabels == InitLabels /\ [][NextLabels]_vars

\* ========================================================================
\* Properties
\* ========================================================================
TenantModels == {<<ml_model_versions[v].tenant_id, ml_model_versions[v].model_id>> :
                    v \in DOMAIN ml_model_versions}

\* C1: in every reachable state every (tenant, model) pair has at most one
\* deployment row with deployment_end = null and is_production = true, also
\* while two deploy requests for the pair run in separate transactions.
C1_AtMostOneOpenProduction ==
    \A tm \in TenantModels : Cardinality(OpenProduction(tm[1], tm[2])) <= 1

\* a version predict can serve: cached, or its artifact path is known and the
\* directory holds a model
Loadable(version_id) ==
    /\ version_id \in DOMAIN version_paths
    /\ version_paths[version_id] # <<>>
    /\ version_dir(version_paths[version_id]) \in DOMAIN model_files
    /\ model_files[version_dir(version_paths[version_id])] # Corrupt

Servable(version_id) == version_id \in LoadedIds \/ Loadable(version_id)

\* C2: when a production deploy of version v (tenant T) returns, a
\* predict(tenantId = T) without a version id sent right then resolves to v, and
\* is served by v when v's artifact is loadable; no refresh run is needed.
C2_DeployThenPredict ==
    [][\A p \in DeployProcs, v \in VersionIds, t \in Tenants :
         (/\ deploy[p].pc = "committed"
          /\ deploy[p].is_production
          /\ deploy[p].version_id = v
          /\ ml_model_versions[v].tenant_id = t
          /\ deploy'[p].pc = "idle")
         => /\ deploy'[p].status = "ok"
            /\ resolve_version_id(None, t)' = v
            /\ Servable(v)' => registry_predict(None, t)'.version_id = v]_vars

\* a predict for T1 without a version id was served by vb, the version the
\* operator's deploy made production, while the seed version va has no path yet
\* (no refresh run has completed)
C2_Witness ==
    /\ deploy["d1"].status = "ok"
    /\ tenant_defaults = [t \in {"T1"} |-> "vb"]
    /\ DOMAIN version_paths = {"vb"}
    /\ last_predict.tenant_id = "T1"
    /\ last_predict.model_version_id = None
    /\ last_predict.result_version_id = "vb"

\* the cache without the entry of version_id, order kept
Without(cache, version_id) == SelectSeq(cache, LAMBDA e : e.version_id # version_id)

\* C3: the cache changes only by a use.  A hit moves the entry to the
\* most-recently-used end and reloads nothing; a miss below capacity appends the
\* loaded entry; a miss at capacity removes exactly the least recently used
\* entry (the head) and appends the loaded one.  The version the previous
\* predict was served by is therefore not the one evicted (capacity >= 2).
C3_LruCorrect ==
    [][loaded' # loaded =>
         LET served == last_predict'.result_version_id
             entry == loaded'[Len(loaded')]
         IN  /\ loaded' # <<>>
             /\ entry.version_id = served
             /\ Len(loaded') <= MaxLoaded
             /\ IF served \in LoadedIds
                THEN /\ last_predict'.via = "hit"
                     /\ last_predict'.evicted = None
                     /\ loaded' = Append(Without(loaded, served), loaded[IndexOf(served)])
                ELSE /\ last_predict'.via = "load"
                     /\ IF Len(loaded) < MaxLoaded
                        THEN /\ loaded' = Append(loaded, entry)
                             /\ last_predict'.evicted = None
                        ELSE /\ loaded' = Append(Tail(loaded), entry)
                             /\ last_predict'.evicted = Head(loaded).version_id
                             /\ (MaxLoaded >= 2 /\ last_predict.result_version_id # None)
                                => last_predict'.evicted # last_predict.result_version_id]_vars

\* a miss at capacity has evicted an entry and the cache is full again
C3_Witness ==
    /\ last_predict.via = "load"
    /\ last_predict.evicted # None
    /\ last_predict.evicted \notin LoadedIds
    /\ Len(loaded) = MaxLoaded

RetrainKey(p) == lock_key(retrain[p].tenant_id, retrain[p].model_id)

RunningFor(key) == {q \in Training : RetrainKey(q) = key}

\* the step in which retrain_model of request p runs up to its first await
Enters(p) ==
    /\ retrain[p].pc = "called"
    /\ ~insufficient(retrain[p].feedback_count)
    /\ retrain'[p].pc # "called"

\* C4: at most one training run is in flight per (tenant, model) key, and a
\* retrain call that finds a run of its key in flight returns at once with
\* already_running: it does not wait, trains nothing and leaves the locks alone.
C4_RetrainMutualExclusion ==
    /\ [](\A p, q \in Training : RetrainKey(p) = RetrainKey(q) => p = q)
    /\ [][\A p \in RetrainProcs :
            (Enters(p) /\ RunningFor(RetrainKey(p)) # {})
            => /\ retrain'[p].pc = "idle"
               /\ retrain'[p].result = "already_running"
               /\ UNCHANGED <<locks, db_vars, model_files>>]_vars

\* a call was answered already_running while the other request of its key trains
C4_Witness ==
    \E p, q \in RetrainProcs :
        /\ p # q
        /\ retrain[p].pc = "idle"
        /\ retrain[p].result = "already_running"
        /\ q \in Training
        /\ RetrainKey(q) = RetrainKey(p)

\* C5: a lock is held only while a run of its key is in flight, so once a run
\* has finished (success or failure) a retrain call for the key is not
\* answered already_running: it takes the lock and trains.
C5_LockReleased ==
    /\ [](\A key \in DOMAIN locks : locks[key] => RunningFor(key) # {})
    /\ [][\A p \in RetrainProcs :
            (Enters(p) /\ RunningFor(RetrainKey(p)) = {})
            => /\ retrain'[p].pc = "feedback"
               /\ retrain'[p].result # "already_running"
               /\ locks'[RetrainKey(p)]]_vars

\* a run for a key failed, its lock is free again, and a later call for the
\* same key is training
C5_Witness ==
    \E p, q \in RetrainProcs :
        /\ retrain[p].pc = "idle"
        /\ retrain[p].result = "failed"
        /\ q \in Training
        /\ RetrainKey(q) = RetrainKey(p)

\* C6: a retrain request whose tenant has fewer feedback rows than the minimum
\* is answered success = false (insufficient feedback); the step takes no lock
\* and writes no version row and no artifact.
C6_InsufficientFeedback ==
    [][\A p \in RetrainProcs :
         (/\ retrain[p].pc = "called"
          /\ retrain[p].feedback_count < MIN_FEEDBACK_FOR_RETRAIN
          /\ retrain'[p] # retrain[p])
         => /\ retrain'[p].pc = "idle"
            /\ retrain'[p].result = "insufficient"
            /\ UNCHANGED <<locks, ml_model_versions, model_files>>]_vars

\* a request for T2, which has too little feedback, was refused; no lock exists
\* for it and T2 still has its one version row
C6_Witness ==
    \E p \in RetrainProcs :
        /\ retrain[p].result = "insufficient"
        /\ retrain[p].tenant_id = "T2"
        /\ RetrainKey(p) \notin DOMAIN locks
        /\ VersionCount("T2") = 1

\* the step is a /predict call answered (the answer differs from the last one)
Predicted == last_predict' # last_predict

\* C7: once the service has started, a predict without a version id for a
\* tenant that has no entry in the tenant-default map is answered, not failed:
\* from the filesystem default model, with modelVersionId = null and
\* modelVersion = the default model's label.  The cache is not touched.
C7_FallbackPredict ==
    [][(/\ Predicted
        /\ last_predict'.model_version_id = None
        /\ last_predict'.tenant_id \notin DOMAIN tenant_defaults)
       => /\ last_predict'.status = "ok"
          /\ last_predict'.via = "fallback"
          /\ last_predict'.result_version_id = None
          /\ last_predict'.model_version = model_files[CURRENT_MODEL_DIR]
          /\ loaded' = loaded]_vars

\* tenant T2, which has no production deployment, got the fallback answer
C7_Witness ==
    /\ last_predict.tenant_id = "T2"
    /\ last_predict.model_version_id = None
    /\ last_predict.via = "fallback"
    /\ "T2" \notin DOMAIN tenant_defaults
    /\ \A d \in ProductionRows : ml_model_deployments[d].tenant_id # "T2"

\* C8: in every state in which predict can run (any state of the started
\* service, predict does not suspend) the two maps are one snapshot: every
\* tenant default has its artifact path in the version-path map, as it has
\* before a refresh and after it.
C8_OneSnapshot ==
    Started => \A t \in DOMAIN tenant_defaults : tenant_defaults[t] \in DOMAIN version_paths

\* the version the resolution order of the claim names for a request
ClaimedVersion(tenant_id, model_version_id) ==
    IF Parseable(model_version_id) /\ Servable(model_version_id) THEN model_version_id
    ELSE IF /\ Parseable(tenant_id)
            /\ tenant_id \in DOMAIN tenant_defaults
            /\ Servable(tenant_defaults[tenant_id])
         THEN tenant_defaults[tenant_id]
    ELSE None

\* C9: predict is served by the explicit version when that is parseable and
\* cached or loadable, otherwise by the tenant's production version, otherwise
\* by the filesystem fallback (modelVersionId = null).
C9_ResolutionOrder ==
    [][Predicted =>
         last_predict'.result_version_id =
            ClaimedVersion(last_predict'.tenant_id, last_predict'.model_version_id)]_vars

\* C10: a step of a retrain request leaves every deployment row, the stage of
\* every existing version, the tenant-default map and the LRU cache as they
\* are, so every tenant keeps resolving to the same version; the row a run
\* adds has stage = staging.
C10_RetrainNeverPromotes ==
    [][retrain' # retrain =>
         /\ UNCHANGED <<ml_model_deployments, tenant_defaults, loaded>>
         /\ \A v \in DOMAIN ml_model_versions :
               /\ v \in DOMAIN ml_model_versions'
               /\ ml_model_versions'[v] = ml_model_versions[v]
         /\ \A v \in DOMAIN ml_model_versions' \ DOMAIN ml_model_versions :
               ml_model_versions'[v].stage = "staging"
         /\ \A t \in Tenants :
               resolve_version_id(None, t)' = resolve_version_id(None, t)]_vars

\* a retrain of T1 succeeded and wrote a row while T1's production version va
\* is the tenant default and sits in the cache
C10_Witness ==
    /\ \E p \in RetrainProcs : retrain[p].result = "success" /\ retrain[p].tenant_id = "T1"
    /\ DOMAIN ml_model_versions # SeedIds
    /\ "T1" \in DOMAIN tenant_defaults
    /\ tenant_defaults["T1"] = "va"
    /\ "va" \in LoadedIds

\* C11: a deploy request whose version id has no row, or only a soft-deleted
\* row, is answered NotFound in its first step and that step changes nothing:
\* no deployment row is added or closed, no version row changes, and the
\* tenant-default and version-path maps stay as they are.
C11_DeployNotFound ==
    [][\A p \in DeployProcs :
         (/\ deploy[p].pc = "idle"
          /\ deploy'[p] # deploy[p]
          /\ \/ deploy'[p].version_id \notin DOMAIN ml_model_versions
             \/ ml_model_versions[deploy'[p].version_id].is_deleted)
         => /\ deploy'[p].pc = "idle"
            /\ deploy'[p].status = "not_found"
            /\ UNCHANGED <<ml_model_deployments, ml_model_versions, tenant_defaults,
                           version_paths>>]_vars

\* the deploy of the soft-deleted version vz was refused; a production deploy of
\* another version has patched the maps; vz is in neither map and in no row
C11_Witness ==
    \E p \in DeployProcs :
        /\ deploy[p].status = "not_found"
        /\ deploy[p].version_id = "vz"
        /\ tenant_defaults # <<>>
        /\ "vz" \notin DOMAIN version_paths
        /\ "vz" \notin Range(tenant_defaults)
        /\ \A d \in DeploymentIds : ml_model_deployments[d].model_version_id # "vz"
        /\ ml_model_versions["vz"].stage = "staging"

\* C12: a predict whose resolved version is not cached and cannot be loaded
\* (its path is unknown or empty, its directory holds no model file, or the
\* files cannot be read back) is answered, not failed: from the filesystem
\* default model, with modelVersionId = null, and nothing is cached.
C12_LoadFailureFallsBack ==
    [][\A r \in PredictRequests :
         LET resolved == resolve_version_id(r[2], r[1])
         IN  (/\ Predicted
              /\ last_predict'.tenant_id = r[1]
              /\ last_predict'.model_version_id = r[2]
              /\ resolved # None
              /\ ~Servable(resolved))
             => /\ last_predict'.status = "ok"
                /\ last_predict'.result_version_id = None
                /\ last_predict'.result_version_label = model_files[CURRENT_MODEL_DIR]
                /\ loaded' = loaded]_vars

\* the operator made vb production for T1; vb's path is known and its directory
\* exists, but its files cannot be read: T1's predict got the fallback answer
C12_Witness ==
    /\ last_predict.tenant_id = "T1"
    /\ last_predict.model_version_id = None
    /\ Get(tenant_defaults, "T1") = "vb"
    /\ "vb" \in DOMAIN version_paths
    /\ version_dir(version_paths["vb"]) \in DOMAIN model_files
    /\ model_files[version_dir(version_paths["vb"])] = Corrupt
    /\ last_predict.resolved_version_id = "vb"
    /\ last_predict.status = "ok"
    /\ last_predict.result_version_id = None

\* C13: in every reachable state no two version rows of one tenant carry the
\* same full label, also when two retrain runs of the tenant (different lock
\* keys) counted the same number of rows and computed the same label.
C13_LabelUniquePerTenant ==
    \A v, w \in DOMAIN ml_model_versions :
        (/\ v # w
         /\ ml_model_versions[v].tenant_id = ml_model_versions[w].tenant_id)
        => ml_model_versions[v].full_version_label # ml_model_versions[w].full_version_label

\* two runs of tenant T1 under different keys computed the same version number;
\* one has written its row, the insert of the other was refused
C13_Witness ==
    \E p, q \in RetrainProcs :
        /\ p # q
        /\ RetrainKey(p) # RetrainKey(q)
        /\ retrain[p].tenant_id = retrain[q].tenant_id
        /\ retrain[p].version_num = retrain[q].version_num
        /\ retrain[p].pc = "write_failed"
        /\ retrain[q].result = "success"
        /\ \E v \in DOMAIN ml_model_versions \ SeedIds :
              ml_model_versions[v].full_version_label = FullLabel(retrain[p].version_num)

\* the tenant-default map as it was when the run in flight started
PriorDefaults == IF refresh.pc = "versions" THEN refresh.prior_defaults ELSE tenant_defaults

\* C14: when a query of a refresh run raises, the deployments query or the
\* version query, the run ends with both maps exactly as they were when it
\* started.
C14_FailedRefreshKeepsSnapshot ==
    [][(refresh.pc \in {"deployments", "versions"} /\ refresh'.pc = "failed")
       => /\ tenant_defaults' = PriorDefaults
          /\ version_paths' = version_paths]_vars

\* the maps a completed run in flight would leave
ProducedPaths == IF refresh.pc = "versions" THEN merge_paths(refresh.vresult) ELSE version_paths

\* C15: when stop() cancels the refresh task, the maps left behind are both
\* those from before the interrupted run or both those the run produces,
\* never the run's tenant defaults with the earlier version paths.
C15_CancelKeepsSnapshot ==
    [][(refresh.pc # "stopped" /\ refresh'.pc = "stopped")
       => \/ /\ tenant_defaults' = PriorDefaults
             /\ version_paths' = version_paths
          \/ /\ tenant_defaults' = refresh.new_defaults
             /\ refresh.pc = "versions"
             /\ version_paths' = ProducedPaths]_vars

\* the versions the committed, open production rows name for a tenant
ProductionVersions(tenant_id) ==
    {ml_model_deployments[d].model_version_id :
        d \in {x \in ProductionRows : ml_model_deployments[x].tenant_id = tenant_id}}

RequestPair(p) == <<retrain[p].tenant_id, retrain[p].model_id>>

\* C17: a retrain call that enters retrain_model while a run for another
\* (tenant, model) pair is in flight, and none for its own, is not answered
\* already_running: it starts its own run, and the other run stays in flight.
C17_KeysIndependent ==
    [][\A p \in RetrainProcs, q \in Training :
         (/\ Enters(p)
          /\ RequestPair(q) # RequestPair(p)
          /\ \A o \in Training : RequestPair(o) # RequestPair(p))
         => /\ retrain'[p].pc = "feedback"
            /\ retrain'[p].result # "already_running"
            /\ retrain'[q] = retrain[q]]_vars

\* runs for two different pairs of one tenant are in flight together
C17_Witness ==
    \E p, q \in Training :
        /\ RequestPair(p) # RequestPair(q)
        /\ retrain[p].tenant_id = retrain[q].tenant_id
        /\ locked(RetrainKey(p))
        /\ locked(RetrainKey(q))

\* a sequence of labels in strictly increasing sort order (so without repeats)
IsSorted(seq) == \A i, j \in DOMAIN seq : i < j => Pos(seq[i]) < Pos(seq[j])

\* C18: the label set a run trains and saves its version with is the sorted
\* union of the current encoder's labels and the feedback labels when the
\* feedback names a label the encoder does not know, and is the current
\* encoder's label set otherwise; the current encoder is not modified.
C18_LabelSetUnion ==
    [][\A p \in RetrainProcs :
         (retrain[p].pc = "feedback" /\ retrain'[p].pc = "versioned")
         => LET fb == feedback_labels[retrain[p].tenant_id]
                new == retrain'[p].label_set
            IN  /\ label_encoder' = label_encoder
                /\ IF fb \subseteq Range(label_encoder)
                   THEN new = label_encoder
                   ELSE /\ Range(new) = Range(label_encoder) \cup fb
                        /\ IsSorted(new)]_vars

\* a run succeeded whose feedback named a label that sorts before one the
\* encoder knows: the saved label set is longer than the encoder's, which is
\* as it was
C18_Witness ==
    \E p \in RetrainProcs :
        /\ retrain[p].result = "success"
        /\ "imbalance" \in feedback_labels[retrain[p].tenant_id]
        /\ label_encoder = <<"bearing", "normal">>
        /\ "imbalance" \in Range(retrain[p].label_set)
        /\ Len(retrain[p].label_set) > Len(label_encoder)

\* Startup: the registry is constructed and the handlers are reachable; load()
\* of the default model is one more step, which the handlers do not wait for.
NextStartup ==
    \/ Load
    \/ \E r \in PredictRequests : Predict(r[1], r[2])
    \/ \E p \in Operator, v \in OperatorVersions : DeploySelect(p, v, TRUE)
    \/ \E p \in Operator : DeployUpdate(p)
    \/ \E p \in Operator : DeployCommit(p)
    \/ \E p \in Operator : DeployReturn(p)

SpecStartup == Init /\ [][NextStartup]_vars

\* C20: a predict call answered while the default model is not loaded is
\* answered with an error, whatever ids it carries and whatever was deployed.
C20_RejectedUntilLoaded ==
    [][(last_predict' # last_predict /\ current_version = None)
         => last_predict'.status = "error"]_vars

\* the directory save_new_version writes the artifacts of version_num to
ArtifactDir(version_num) == MODEL_DIR \o <<"versions", VersionLabel(version_num)>>

\* C19: when the artifacts of a run's version were not persisted (after the
\* save step the version's directory does not exist), the run writes no version
\* row and does not go on to answer success.
C19_StorageFailureSurfaced ==
    [][\A p \in RetrainProcs :
         (/\ retrain[p].pc = "versioned"
          /\ retrain'[p].pc # "versioned"
          /\ ArtifactDir(retrain[p].version_num) \notin DOMAIN model_files')
         => /\ ml_model_versions' = ml_model_versions
            /\ retrain'[p].pc # "written"
            /\ retrain'[p].result # "success"]_vars

\* The artifact store on its own: saves, deletes and loads in any order.
NextStore ==
    \/ \E v \in StoreVersions, a \in SUBSET ArtifactNames : StoreSave(v, a)
    \/ \E v \in StoreVersions : StoreDelete(v)
    \/ \E v \in StoreArguments : StoreLoad(v)

SpecStore == Init /\ [][NextStore]_vars

\* C21: load(version) fails with NotFound exactly when exists(version) is false,
\* and a load that fails leaves the store as it was.
C21_LoadNotFound ==
    [][last_load' # last_load
         => /\ (last_load'.status = "not_found") <=> ~store_exists(last_load'.version)
            /\ last_load'.status # "ok" => artifact_store' = artifact_store]_vars

C21_Witness ==
    /\ last_load.status = "not_found"
    /\ last_load.version \in StoreVersions
    /\ ~store_exists(last_load.version)
    /\ artifact_store # <<>>

\* C32: right after save(v, m) the version exists and load(v) yields exactly the
\* artifact names of m, whatever was saved or deleted under v before.
C32_SaveLoadRoundTrip ==
    [][\A v \in StoreVersions, m \in SUBSET ArtifactNames :
          StoreSave(v, m)
            => /\ store_exists(v)'
               /\ store_load(v)' = [status |-> "ok", artifacts |-> m]]_vars

\* The binding cache of the ingestion service: the table changes under it, the
\* loop refreshes, fails and is stopped.
NextBinding ==
    \/ \E a \in Assets, v \in BoundVersions : BindAsset(a, v)
    \/ \E a \in Assets, v \in BoundVersions : UnbindAsset(a, v)
    \/ BindingStart
    \/ BindingFetch
    \/ BindingRefreshed
    \/ BindingFail
    \/ BindingSleep
    \/ BindingStop

SpecBinding == Init /\ [][NextBinding]_vars

\* ModelBindingCache.size
binding_size == Cardinality(DOMAIN binding_cache)

\* C22: the cache always holds exactly the result of the latest refresh that
\* succeeded: an asset has an entry iff that result has a row for it, the entry
\* is the binding of such a row; a refresh that fails changes neither the cache
\* nor its size.
C22_CacheIsLatestResult ==
    /\ [](\A a \in Assets :
            LET rs == {r \in binding_refresh.result : r.asset_id = a}
            IN  IF rs = {} THEN a \notin DOMAIN binding_cache
                ELSE /\ a \in DOMAIN binding_cache
                     /\ binding_cache[a] \in {ModelBinding(r) : r \in rs})
    /\ [][binding_refresh'.pc = "failed"
            => binding_cache' = binding_cache /\ binding_size' = binding_size]_vars

C22_Witness ==
    /\ binding_refresh.pc = "failed"
    /\ binding_cache # <<>>
    /\ \E r \in binding_refresh.result : r \notin active_rows

\* C23: the LRU cache never holds more than the configured maximum of loaded
\* versions, and no version id twice.
C23_CacheBounded ==
    /\ Len(loaded) <= MaxLoaded
    /\ \A i, j \in 1..Len(loaded) :
          loaded[i].version_id = loaded[j].version_id => i = j

C23_Witness ==
    /\ Len(loaded) = MaxLoaded
    /\ last_predict.via = "load"
    /\ last_predict.evicted # None
    /\ \E p \in DeployProcs : deploy[p].status = "ok"

\* The two refresh loops with a metadata store that may fail any query; the
\* event loop runs a due timer and a ready task, the database answers.
NextLoops ==
    \/ Load
    \/ Started /\ RefreshQuery
    \/ RefreshDefaults
    \/ RefreshPaths
    \/ RefreshFail
    \/ RefreshSleep
    \/ Stop
    \/ \E v \in BoundVersions : BindAsset("A1", v)
    \/ \E v \in BoundVersions : UnbindAsset("A1", v)
    \/ BindingStart
    \/ BindingFetch
    \/ BindingRefreshed
    \/ BindingFail
    \/ BindingSleep
    \/ BindingStop

SpecLoops ==
    /\ Init
    /\ [][NextLoops]_vars
    /\ WF_vars(RefreshSleep)
    /\ WF_vars(Started /\ RefreshQuery)
    /\ WF_vars(BindingSleep)
    /\ WF_vars(BindingFetch)

\* C24: after an iteration of a refresh loop has failed, the loop attempts
\* another iteration (unless stop() cancels it first); for the registry's loop
\* and for the binding cache's loop.
C24_LoopSurvivesFailure ==
    /\ (refresh.pc = "failed") ~> (refresh.pc \in {"deployments", "stopped"})
    /\ (binding_refresh.pc = "failed") ~> (binding_refresh.pc \in {"fetch", "stopped"})

C24_Witness ==
    /\ refresh.after_failure /\ refresh.pc = "deployments"
    /\ binding_refresh.after_failure /\ binding_refresh.pc = "fetch"

\* C25: a deploy with is_production = false appends exactly one row, with
\* is_production = false, for the version; its commit changes no other
\* deployment row and no version row, and neither the commit nor the return
\* changes the tenant-default and version-path maps.
C25_StagingDeployFrame ==
    [][\A p \in DeployProcs :
         /\ (/\ deploy[p].pc = "selected" /\ ~deploy[p].is_production
             /\ deploy'[p].pc = "committed")
            => /\ Len(ml_model_deployments') = Len(ml_model_deployments) + 1
               /\ SubSeq(ml_model_deployments', 1, Len(ml_model_deployments))
                    = ml_model_deployments
               /\ ~ml_model_deployments'[Len(ml_model_deployments')].is_production
               /\ ml_model_deployments'[Len(ml_model_deployments')].model_version_id
                    = deploy[p].version_id
               /\ ml_model_versions' = ml_model_versions
               /\ registry_maps' = registry_maps
         /\ (/\ deploy[p].pc = "committed" /\ ~deploy[p].is_production
             /\ deploy'[p].pc = "idle")
            => /\ deploy'[p].status = "ok"
               /\ ml_model_deployments' = ml_model_deployments
               /\ ml_model_versions' = ml_model_versions
               /\ registry_maps' = registry_maps]_vars

C25_Witness ==
    /\ \E p \in DeployProcs : deploy[p].status = "ok"
    /\ \E i \in 1..Len(ml_model_deployments) :
          /\ ~ml_model_deployments[i].is_production
          /\ ml_model_deployments[i].deployment_end = None
          /\ ml_model_versions[ml_model_deployments[i].model_version_id].stage = "staging"
    /\ \E i \in 1..Len(ml_model_deployments) :
          /\ ml_model_deployments[i].is_production
          /\ ml_model_deployments[i].deployment_end = None

\* Retraining on request for any tenant, with or without a model id: one
\* request at a time.  T2 has no model named fault_classifier.
WriteRequests == RetrainRequests \cup {<<"T2", None>>}

NextWrite ==
    \/ \E t \in Tenants, f \in BOOLEAN : SubmitFeedback(t, f)
    \/ \E p \in Trainer, r \in WriteRequests : RetrainCall(p, r[1], r[2])
    \/ \E p \in Trainer : RetrainInsufficient(p)
    \/ \E p \in Trainer : RetrainEnter(p)
    \/ \E p \in Trainer : RetrainNoFeedback(p)
    \/ \E p \in Trainer : RetrainTrain(p)
    \/ \E p \in Trainer, saved \in BOOLEAN : RetrainSave(p, saved)
    \/ \E p \in Trainer : RetrainReturn(p)
    \/ \E p \in Trainer : RetrainFail(p)

SpecWrite == Init /\ [][NextWrite]_vars

\* C26: when a run returns success, the table holds a row written by a run for
\* the run's tenant (and model, when the request named one) with stage staging
\* and the label of the returned version.
C26_SuccessHasRow ==
    [][\A p \in RetrainProcs :
         (retrain[p].pc = "written" /\ retrain'[p].result = "success")
         => \E v \in DOMAIN ml_model_versions' \ SeedIds :
               /\ ml_model_versions'[v].tenant_id = retrain[p].tenant_id
               /\ retrain[p].model_id # None
                    => ml_model_versions'[v].model_id = retrain[p].model_id
               /\ ml_model_versions'[v].stage = "staging"
               /\ ml_model_versions'[v].full_version_label
                    = FullLabel(retrain'[p].version_num)]_vars

\* C27: the version number assigned to a run differs from the number of every
\* earlier run for the same tenant and model that persisted its artifacts.
C27_FreshLabel ==
    [][\A p \in RetrainProcs :
         (retrain[p].pc = "feedback" /\ retrain'[p].pc = "versioned")
         => <<retrain[p].tenant_id, retrain[p].model_id, retrain'[p].version_num>>
              \notin persisted]_vars

\* Two models of tenant T1 retrained at once: M3 is a second ml_models row of T1.
RaceRequests == {<<"T1", "M1">>, <<"T1", "M3">>}

NextRace ==
    \/ \E p \in RetrainProcs, r \in RaceRequests : RetrainCall(p, r[1], r[2])
    \/ \E p \in RetrainProcs : RetrainEnter(p)
    \/ \E p \in RetrainProcs : RetrainTrain(p)
    \/ \E p \in RetrainProcs, saved \in BOOLEAN : RetrainSave(p, saved)
    \/ \E p \in RetrainProcs : RetrainReturn(p)
    \/ \E p \in RetrainProcs : RetrainFail(p)

SpecRace == Init /\ [][NextRace]_vars

\* C28: a run that computes its version while another run of the same tenant
\* has computed its own, with no row of the tenant committed since, is assigned
\* the same version; runs for two models of one tenant hold distinct keys, so
\* this interleaving is reachable (the witness).
C28_SameLabelWhenOverlapping ==
    [][\A p, q \in RetrainProcs :
         (/\ p # q
          /\ retrain[q].pc = "versioned"
          /\ retrain[p].pc = "feedback" /\ retrain'[p].pc = "versioned"
          /\ retrain[p].tenant_id = retrain[q].tenant_id
          /\ Cardinality({v \in DOMAIN ml_model_versions :
                            ml_model_versions[v].tenant_id = retrain[q].tenant_id}) + 1
               = retrain[q].version_num)
         => retrain'[p].version_num = retrain[q].version_num]_vars

C28_Witness ==
    \E p, q \in RetrainProcs :
        /\ retrain[p].pc = "versioned" /\ retrain[q].pc = "versioned"
        /\ retrain[p].tenant_id = retrain[q].tenant_id
        /\ retrain[p].model_id # None /\ retrain[q].model_id # None
        /\ retrain[p].model_id # retrain[q].model_id
        /\ lock_key(retrain[p].tenant_id, retrain[p].model_id)
             # lock_key(retrain[q].tenant_id, retrain[q].model_id)
        /\ retrain[p].version_num = retrain[q].version_num

\* C29: a run in which an exception was raised (while loading feedback,
\* training, counting versions, persisting the artifacts or writing the row)
\* ends with the structured result success=false, answered as a payload and not
\* as a transport-level error, and with the lock released.
C29_FailureIsStructured ==
    [][\A p \in RetrainProcs :
         /\ (/\ retrain[p].pc \in {"feedback", "versioned", "write_failed"}
             /\ retrain'[p].pc = "idle"
             /\ retrain'[p].result # "success")
            => /\ retrain'[p].result \in {"failed", "no_feedback"}
               /\ http_status(retrain'[p].result) = 200
               /\ ~locks'[lock_key(retrain[p].tenant_id, retrain[p].model_id)]
         /\ (/\ retrain[p].pc = "versioned"
             /\ retrain'[p].pc # "versioned"
             /\ ArtifactDir(retrain[p].version_num) \notin DOMAIN model_files')
            => \/ retrain'[p].pc = "write_failed"
               \/ retrain'[p].pc = "idle" /\ retrain'[p].result = "failed"]_vars

\* Shutdown: stop() is called on the registry and on the binding cache at any
\* point of their loops, also before the loop was started (the registry's loop
\* is started once the default model is loaded).
NextStop ==
    \/ Load
    \/ Started /\ RefreshQuery
    \/ RefreshDefaults
    \/ RefreshPaths
    \/ RefreshFail
    \/ RefreshSleep
    \/ Started /\ Stop
    \/ ~Started /\ StopUnstarted
    \/ \E v \in BoundVersions : BindAsset("A1", v)
    \/ \E v \in BoundVersions : UnbindAsset("A1", v)
    \/ BindingStart
    \/ BindingFetch
    \/ BindingRefreshed
    \/ BindingFail
    \/ BindingSleep
    \/ BindingStop

SpecStop == Init /\ [][NextStop]_vars

\* C30: once stop() has returned, the loop takes no further step and the
\* cached maps stay as they are, for the registry and for the binding cache;
\* stop() on an instance without a loop task changes none of its data.
C30_StopIsFinal ==
    /\ [][refresh.cancelled # None
            => refresh' = refresh /\ registry_maps' = registry_maps]_vars
    /\ [][binding_refresh.stop_returned
            => binding_refresh' = binding_refresh /\ binding_cache' = binding_cache]_vars
    /\ [][(refresh.cancelled = None /\ refresh'.cancelled = "no_task")
            => registry_maps' = registry_maps /\ loaded' = loaded]_vars
    /\ [][(binding_refresh.pc = "none" /\ binding_refresh'.stop_returned)
            => binding_refresh'.pc = "none" /\ binding_cache' = binding_cache]_vars
    /\ [](refresh.cancelled # None => refresh.pc = "stopped")
    /\ [](binding_refresh.stop_returned => binding_refresh.pc \in {"none", "stopped"})

C30_Witness ==
    /\ refresh.pc = "stopped" /\ refresh.cancelled = "versions"
    /\ ml_model_deployments # <<>>
    /\ binding_refresh.pc = "stopped" /\ binding_refresh.stop_returned
    /\ binding_cache # <<>>
    /\ active_rows # binding_refresh.result

\* Legacy activation: the default manager is loaded, versions are activated in
\* any order, and a copy into the current directory may hit an I/O error.
NextActivate ==
    \/ LegacyLoad
    \/ \E v \in ActivateVersions, fail_at \in 0..Len(ArtifactFiles) : Activate(v, fail_at)

SpecActivate == Init /\ [][NextActivate]_vars

\* C31: an activate call that fails leaves the current directory and the
\* default handle as they were; one that succeeds leaves the handle serving the
\* model, encoder and scaler of the named version.
C31_ActivateAllOrNothing ==
    [][last_activate' # last_activate
         => IF last_activate'.ok
            THEN LET v == disk[last_activate'.version]
                 IN  /\ EncoderFile \in DOMAIN v /\ ScalerFile \in DOMAIN v
                     /\ handle'.model = v[ModelFile]
                     /\ handle'.label_encoder = v[EncoderFile]
                     /\ handle'.scaler = v[ScalerFile]
            ELSE /\ disk'[CurrentDir] = disk[CurrentDir]
                 /\ handle' = handle]_vars

\* C33: a predict call carrying tenant T is served by one of T's versions or by
\* the filesystem fallback, never by a version of another tenant, whatever
\* explicit version id it supplies.
C33_TenantIsolation ==
    (/\ last_predict.status = "ok"
     /\ last_predict.tenant_id # None
     /\ last_predict.result_version_id # None)
        => ml_model_versions[last_predict.result_version_id].tenant_id
              = last_predict.tenant_id

\* C34: on the process that handled the deploy, once the tenant default of T is
\* the version v of T's committed production deployment, no step that leaves
\* the deployments as they are (a refresh run already in flight, a later run)
\* takes the default of T away from v.
C34_DeployNotUndone ==
    [][\A t \in Tenants, v \in VersionIds :
          (/\ ProductionVersions(t) = {v}
           /\ Get(tenant_defaults, t) = v
           /\ ml_model_deployments' = ml_model_deployments)
             => Get(tenant_defaults', t) = v]_vars

\* C35: a load that fails (no artifact path, no model file, unreadable files)
\* leaves the LRU cache as it is, entries and order; an entry leaves the cache
\* only in the step of a predict that loaded and inserted another version.
C35_FailedLoadKeepsCache ==
    /\ [](\A v \in VersionIds :
            ~load_version(v).ok
              => load_version(v).cache = loaded /\ load_version(v).evicted = None)
    /\ [][/\ (Predicted /\ last_predict'.via \notin {"hit", "load"}) => loaded' = loaded
          /\ LoadedIds \ LoadedIds' # {}
               => /\ last_predict'.via = "load"
                  /\ last_predict'.result_version_id \in LoadedIds' \ LoadedIds]_vars

\* with the cache full, a predict resolved to a version whose path is known but
\* whose directory holds no model file was answered by the fallback
C35_Witness ==
    /\ Len(loaded) = MaxLoaded
    /\ last_predict.via = "fallback"
    /\ last_predict.resolved_version_id \in DOMAIN version_paths
    /\ last_predict.resolved_version_id \notin LoadedIds
    /\ ~load_version(last_predict.resolved_version_id).ok

\* the model a run's version row is written for: the one the request names,
\* else the tenant's model named fault_classifier
resolved_model(tenant_id, model_id) ==
    IF model_id # None THEN model_id ELSE Get(FaultClassifier, tenant_id)

\* C36: no two retrain runs for the same model of the same tenant are in flight
\* together, also when one request names the model id and the other omits it
\* and is resolved to that model.
C36_SameModelExclusive ==
    \A p, q \in Training :
        (/\ p # q
         /\ retrain[p].tenant_id = retrain[q].tenant_id
         /\ resolved_model(retrain[p].tenant_id, retrain[p].model_id) # None)
            => resolved_model(retrain[p].tenant_id, retrain[p].model_id)
                 # resolved_model(retrain[q].tenant_id, retrain[q].model_id)

\* C37: in every state a version row has stage = production only if an open
\* production deployment of its (tenant, model) pair names it; a version whose
\* production deployment a later promotion closed is no longer production.
C37_StageMatchesDeployment ==
    \A v \in DOMAIN ml_model_versions :
        ml_model_versions[v].stage = "production"
          => \E d \in OpenProduction(ml_model_versions[v].tenant_id,
                                     ml_model_versions[v].model_id) :
                ml_model_deployments[d].model_version_id = v

\* C38: a prediction served by a specific version (modelVersionId not null)
\* carries that version's label as modelVersion, not the label of the
\* filesystem default model.
C38_LabelMatchesId ==
    (last_predict.status = "ok" /\ last_predict.result_version_id # None)
        => last_predict.model_version = last_predict.result_version_label

\* From retraining to serving: T1's model is retrained on request, the operator
\* deploys the versions the runs wrote, and T1 asks for predictions.
TrainedIds == {"n1", "n2"}

NextServe ==
    \/ Load
    \/ \E p \in Trainer : RetrainCall(p, "T1", "M1")
    \/ \E p \in Trainer : RetrainEnter(p)
    \/ \E p \in Trainer : RetrainTrain(p)
    \/ \E p \in Trainer, saved \in BOOLEAN : RetrainSave(p, saved)
    \/ \E p \in Trainer : RetrainReturn(p)
    \/ \E p \in Trainer : RetrainFail(p)
    \/ Started /\ \E p \in Operator, v \in TrainedIds : DeploySelect(p, v, TRUE)
    \/ \E p \in Operator : DeployUpdate(p)
    \/ \E p \in Operator : DeployCommit(p)
    \/ \E p \in Operator : DeployReturn(p)
    \/ Started /\ \E v \in TrainedIds \cup {None} : Predict("T1", v)

SpecServe == Init /\ [][NextServe]_vars

\* C39: a predict resolved to a version a retrain run wrote, whose production
\* deploy has returned (its path is in the version-path map) and whose
\* artifacts lie where the run persisted them, is served by that version, not
\* by the filesystem fallback.
C39_RetrainedIsServable ==
    [][\A v \in TrainedIds :
         (/\ Predicted
          /\ last_predict'.resolved_version_id = v
          /\ v \in DOMAIN version_paths
          /\ MODEL_DIR \o <<"versions", version_paths[v][Len(version_paths[v])]>>
                \in DOMAIN model_files)
         => last_predict'.result_version_id = v]_vars

====
